---------------------------- MODULE Spec2Model ----------------------------
(***************************************************************************)
(* State-machine model of the JSQ sensor emulator's TCP server             *)
(* (sensor_emulator_tui.py): the accept loop, the per-client receiver      *)
(* (_handle_client) and sender (_send_telemetry) threads, the command      *)
(* decoder (ControlCommandHandler.parse_command) and the command           *)
(* dispatcher (ControlCommandHandler.handle_command).                      *)
(*                                                                         *)
(* Text is modelled as the sequence of its character codes, bytes as       *)
(* naturals in 0..255.  The timestamps of command_log are left out: no     *)
(* modelled decision reads them.  stdin is taken to be a terminal.         *)
(***************************************************************************)
EXTENDS Integers, Sequences, FiniteSets

(***************************************************************************)
(* Bounds of the model.                                                    *)
(***************************************************************************)
\* peers that connect in the connection-lifecycle workloads
MaxClients == 2
\* telemetry frames generated over a run (packets_sent)
MaxPackets == 1
\* freely chosen command frames at the head of a peer's byte stream
MaxCmds == 1
\* channels of a front-end scenario
MaxChannels == 2
\* seconds of clock a scenario follows
MaxTime == 3
\* calls made on one ChannelConfig object
MaxCalls == 3
\* rounds of the front-end loop a scenario follows
MaxUi == 1
\* telemetry frames of a telemetry scenario
MaxFrames == 2

Clients == 1..MaxClients

(***************************************************************************)
(* Program constants.                                                      *)
(***************************************************************************)
CMD_CAMERA_POWER == 17
CMD_RECORDING_MODE == 21
LOG_CAP == 50

(***************************************************************************)
(* Text literals of the program, as character codes.                       *)
(***************************************************************************)
CAMERA == <<67, 65, 77, 69, 82, 65>>
RECORDING == <<82, 69, 67, 79, 82, 68, 73, 78, 71>>
DO01 == <<68, 79, 48, 49>>
DO02 == <<68, 79, 48, 50>>
ON == <<79, 78>>
OFF == <<79, 70, 70>>
ZERO == <<48>>

\* parse_command's "no command" result
None == <<>>

\* the keys of self.equipment, all off at construction
EquipmentNames == {CAMERA, RECORDING, DO01, DO02}

InitEquipment ==
    [n \in EquipmentNames |-> [is_on |-> FALSE, last_change |-> 0, change_count |-> 0]]

(***************************************************************************)
(* Pure helpers.                                                           *)
(***************************************************************************)
Min(S) == CHOOSE x \in S : \A y \in S : x <= y

RECURSIVE Flatten(_)
Flatten(ss) == IF ss = <<>> THEN <<>> ELSE Head(ss) \o Flatten(Tail(ss))

RECURSIVE Zeros(_)
Zeros(n) == IF n = 0 THEN <<>> ELSE <<0>> \o Zeros(n - 1)

\* struct.unpack(">I", b[0:4])
U32(b) == b[1] * 16777216 + b[2] * 65536 + b[3] * 256 + b[4]

\* struct.unpack(">H", b[0:2])
U16(b) == b[1] * 256 + b[2]

\* str(n) for a non-negative integer: its decimal digits
RECURSIVE IntToStr(_)
IntToStr(n) == IF n < 10 THEN <<48 + n>> ELSE IntToStr(n \div 10) \o <<48 + (n % 10)>>

\* bytes.decode('ascii', errors='ignore'): bytes above 127 are dropped
AsciiIgnore(b) == SelectSeq(b, LAMBDA x : x < 128)

\* str.isspace() on an ASCII character
IsSpace(ch) == ch \in (9..13) \cup (28..32)

\* str.strip()
RECURSIVE LStrip(_)
LStrip(s) == IF s # <<>> /\ IsSpace(Head(s)) THEN LStrip(Tail(s)) ELSE s

RECURSIVE RStrip(_)
RStrip(s) == IF s # <<>> /\ IsSpace(s[Len(s)]) THEN RStrip(SubSeq(s, 1, Len(s) - 1)) ELSE s

Strip(s) == RStrip(LStrip(s))

\* str.startswith("DO")
StartsWithDO(s) == Len(s) >= 2 /\ s[1] = 68 /\ s[2] = 79

(***************************************************************************)
(* ControlCommandHandler.parse_command.  data is the payload handed over   *)
(* by _handle_client (the bytes after the u32 length prefix); Python's     *)
(* 0-based data[i] is data[i+1] here.                                      *)
(***************************************************************************)
\* a decoder that takes every value but zero for "ON"
ShortValueNonZero(value) == IF value # 0 THEN ON ELSE OFF

ShortValue(value) == IF value = 257 THEN ON ELSE OFF

\* the scan range of the DO loop: range(4, len(data) - 5), 1-based
DOScanRange(data) == 5..(Len(data) - 5)

\* a decoder that takes every 8-byte payload whose code is not the camera's
\* for a recording command (else in place of elif)
parse_command_else(data) ==
    IF Len(data) = 8 /\ U16(SubSeq(data, 5, 6)) # CMD_CAMERA_POWER
    THEN <<RECORDING, ShortValue(U16(SubSeq(data, 7, 8)))>>
    ELSE None

parse_command(data) ==
    IF Len(data) < 8 THEN None
    ELSE IF Len(data) = 8 THEN
        LET code == U16(SubSeq(data, 5, 6))
            value == U16(SubSeq(data, 7, 8))
        IN  IF code = CMD_CAMERA_POWER THEN <<CAMERA, ShortValue(value)>>
            ELSE IF code = CMD_RECORDING_MODE THEN <<RECORDING, ShortValue(value)>>
            ELSE None
    ELSE IF Len(data) >= 20 THEN
        LET hits == {i \in DOScanRange(data) : data[i] = 68 /\ data[i + 1] = 79}
        IN  IF hits = {} THEN None
            ELSE LET i == Min(hits)
                     do_name == Strip(AsciiIgnore(SubSeq(data, i, i + 3)))
                     value_bytes == SubSeq(data, i + 4, IF i + 5 <= Len(data) THEN i + 5 ELSE Len(data))
                     value == IF Len(value_bytes) = 2 THEN U16(value_bytes) ELSE 0
                 IN  <<do_name, IntToStr(value)>>
    ELSE None

(***************************************************************************)
(* What the peers send: command frames as they go over the wire.           *)
(***************************************************************************)
LenPrefix(n) == <<0, 0, 0, n>>

\* [u32 length = 8][4 bytes][u16 code][u16 value]
ShortFrame(code, hi, lo) == LenPrefix(8) \o <<0, 0, 0, 0, 0, code, hi, lo>>

\* [u32 length = 20][8 bytes header]["DO" d3 d4][u16 value][6 bytes]
DOFrame(d3, d4, v) == LenPrefix(20) \o Zeros(8) \o <<68, 79, d3, d4, 0, v>> \o Zeros(6)

CamOnFrame == ShortFrame(CMD_CAMERA_POWER, 1, 1)
CamOffFrame == ShortFrame(CMD_CAMERA_POWER, 0, 0)
RecOnFrame == ShortFrame(CMD_RECORDING_MODE, 1, 1)
DO01OnFrame == DOFrame(48, 49, 1)
DO01OffFrame == DOFrame(48, 49, 0)
\* a discrete output that is not in the registry
DO03OnFrame == DOFrame(48, 51, 1)
\* frames that decode to no command
BadCodeFrame == ShortFrame(18, 1, 1)
EmptyFrame == LenPrefix(0)
BadLenFrame == LenPrefix(3) \o <<9, 9, 9>>
MidLenFrame == LenPrefix(9) \o <<9, 9, 9, 9, 9, 9, 9, 9, 9>>
NoMarkerFrame == LenPrefix(20) \o Zeros(20)

\* every sequence of at most n elements of S
RECURSIVE SeqsUpTo(_, _)
SeqsUpTo(S, n) ==
    IF n = 0 THEN {<<>>}
    ELSE LET shorter == SeqsUpTo(S, n - 1)
         IN  shorter \cup {<<x>> \o s : x \in S, s \in {t \in shorter : Len(t) = n - 1}}

\* a byte string cut into one-byte segments
Bytewise(b) == [i \in 1..Len(b) |-> <<b[i]>>]

(***************************************************************************)
(* ChannelConfig.  Values are integers in units of 0.0002, so that 0.001   *)
(* is QUANTUM units and no value lies half-way between two multiples of    *)
(* 0.001 (the rounding of _quantize is then the same for every float close *)
(* to the value).  Times are whole seconds.  The factors noise_factor,     *)
(* drift_factor and the chances are in thousandths.  A random draw is a    *)
(* choice from a small set: the end points of uniform(a, b); -sigma, 0 and *)
(* sigma for gauss(0, sigma).  Products with a fraction are rounded        *)
(* towards zero.  A channel's configuration has min_val + max_val even.    *)
(***************************************************************************)
QUANTUM == 5
ONE == 1000 * QUANTUM
\* -99.0
NO_SENSOR == 0 - 99 * ONE

FAULT_NORMAL == "NORMAL"
FAULT_DISCONNECTED == "DISCONNECTED"
FAULT_FAILED == "FAILED"

\* random.uniform(3.0, 25.0)
DUR_MIN == 3
DUR_MAX == 25
Durations == {DUR_MIN, DUR_MAX}

\* interval = 1.0 / self.rate_hz, in seconds, at --rate 1
INTERVAL == 1

\* alpha = 0.85, in hundredths
ALPHA == 85

\* v * num / den
Scale(v, num, den) ==
    IF v >= 0 THEN (v * num) \div den ELSE 0 - (((0 - v) * num) \div den)

\* random.gauss(0.0, sigma)
GaussDraws(sigma) == {0 - sigma, 0, sigma}

\* float(f"{v:.3f}"): the nearest multiple of 0.001
quantize(v) ==
    LET m == v % QUANTUM
    IN  IF 2 * m < QUANTUM THEN v - m ELSE v + (QUANTUM - m)

\* (min_val + max_val) / 2.0
Midpoint(ch) == (ch.min_val + ch.max_val) \div 2

\* ChannelConfig.__init__
ChannelInit(cfg) ==
    LET mid == (cfg.min_val + cfg.max_val) \div 2
    IN  [min_val |-> cfg.min_val,
         max_val |-> cfg.max_val,
         is_active |-> cfg.is_active,
         anomaly_chance |-> cfg.anomaly_chance,
         noise_factor |-> cfg.noise_factor,
         drift_factor |-> cfg.drift_factor,
         current_value |-> mid,
         noise_state |-> 0,
         fault_mode |-> FAULT_NORMAL,
         fault_until |-> 0,
         failure_kind |-> "",
         failure_value |-> 0,
         last_value |-> IF cfg.is_active THEN quantize(mid) ELSE NO_SENSOR]

\* a set_active whose activation resumes: the baseline, the noise and a
\* fault in progress are kept
set_active_resume(ch, is_active) ==
    IF ~is_active
    THEN [ch EXCEPT !.is_active = FALSE,
                    !.fault_mode = FAULT_NORMAL,
                    !.fault_until = 0,
                    !.failure_kind = "",
                    !.failure_value = 0,
                    !.noise_state = 0,
                    !.last_value = NO_SENSOR]
    ELSE [ch EXCEPT !.is_active = TRUE]

\* a set_active that only sets the flag
set_active_flag(ch, is_active) == [ch EXCEPT !.is_active = is_active]

set_active(ch, is_active) ==
    IF ~is_active
    THEN [ch EXCEPT !.is_active = FALSE,
                    !.fault_mode = FAULT_NORMAL,
                    !.fault_until = 0,
                    !.failure_kind = "",
                    !.failure_value = 0,
                    !.noise_state = 0,
                    !.last_value = NO_SENSOR]
    ELSE [ch EXCEPT !.is_active = TRUE,
                    !.current_value = Midpoint(ch),
                    !.noise_state = 0,
                    !.fault_mode = FAULT_NORMAL,
                    !.fault_until = 0,
                    !.failure_kind = "",
                    !.failure_value = 0,
                    !.last_value = quantize(Midpoint(ch))]

\* _range
range(ch) ==
    LET r == ch.max_val - ch.min_val
    IN  IF r # 0 THEN r ELSE ONE

\* the (failure_kind, failure_value) pairs _start_fault can draw
FailureDraws(ch) ==
    LET r == range(ch)
    IN  {<<"STUCK_HIGH", ch.max_val + Scale(r, f, 10)>> : f \in {2, 15}}
        \cup {<<"STUCK_LOW", ch.min_val - Scale(r, f, 10)>> : f \in {2, 15}}
        \cup {<<"RANDOM_WALK", Midpoint(ch) + Scale(r, f, 10)>> : f \in {10, 25}}
        \cup {<<"RANDOM_WALK", Midpoint(ch) - Scale(r, f, 10)>> : f \in {10, 25}}
        \cup {<<"SPIKES", 0>>}

\* _start_fault: the channels it can leave behind
start_fault(ch, t) ==
    {[ch EXCEPT !.fault_mode = FAULT_DISCONNECTED,
                !.fault_until = t + d,
                !.failure_kind = "",
                !.failure_value = 0] : d \in Durations}
    \cup {[ch EXCEPT !.fault_mode = FAULT_FAILED,
                     !.fault_until = t + d,
                     !.failure_kind = kv[1],
                     !.failure_value = kv[2]] : d \in Durations, kv \in FailureDraws(ch)}

\* a trigger_fault that starts a fault whatever the state of the channel
trigger_fault_always(ch, t) == {<<TRUE, c2>> : c2 \in start_fault(ch, t)}

\* trigger_fault: the pairs <<returned, channel afterwards>>
trigger_fault(ch, t) ==
    IF (~ch.is_active) \/ ch.fault_mode # FAULT_NORMAL
    THEN {<<FALSE, ch>>}
    ELSE {<<TRUE, c2>> : c2 \in start_fault(ch, t)}

\* a fault that ends only after its deadline has passed
maybe_end_fault_late(ch, t) ==
    IF ch.fault_mode # FAULT_NORMAL /\ t > ch.fault_until
    THEN [ch EXCEPT !.fault_mode = FAULT_NORMAL,
                    !.fault_until = 0,
                    !.failure_kind = "",
                    !.failure_value = 0,
                    !.noise_state = 0]
    ELSE ch

\* _maybe_end_fault
maybe_end_fault(ch, t) ==
    IF ch.fault_mode # FAULT_NORMAL /\ t >= ch.fault_until
    THEN [ch EXCEPT !.fault_mode = FAULT_NORMAL,
                    !.fault_until = 0,
                    !.failure_kind = "",
                    !.failure_value = 0,
                    !.noise_state = 0]
    ELSE ch

\* if v < lo: lo elif v > hi: hi
Clamp(v, lo, hi) == IF v < lo THEN lo ELSE IF v > hi THEN hi ELSE v

\* _generate_normal_value: the channels it can leave behind (last_value is
\* the value returned)
generate_normal_value(ch) ==
    LET r == range(ch)
        drift == Scale(r * ch.drift_factor, 1, 1000)
        sigma == Scale(r * ch.noise_factor * (100 - ALPHA), 1, 100000)
    IN  {LET base == Clamp(ch.current_value + g1, ch.min_val, ch.max_val)
             noise == Scale(ch.noise_state, ALPHA, 100) + g2
             value == Clamp(base + noise, ch.min_val, ch.max_val)
         IN  [ch EXCEPT !.current_value = base,
                        !.noise_state = noise,
                        !.last_value = quantize(value)]
           : g1 \in GaussDraws(drift), g2 \in GaussDraws(sigma)}

\* the values a SPIKES failure can draw
SpikeDraws(ch) ==
    LET r == range(ch)
    IN  {Midpoint(ch) + Scale(r, f, 10) : f \in {10, 30}}
        \cup {Midpoint(ch) - Scale(r, f, 10) : f \in {10, 30}}
        \cup {ch.min_val - Scale(r, f, 10) : f \in {2, 12}}
        \cup {ch.max_val + Scale(r, f, 10) : f \in {2, 12}}

\* _generate_failed_value
generate_failed_value(ch) ==
    IF ch.failure_kind \in {"STUCK_HIGH", "STUCK_LOW"}
    THEN {[ch EXCEPT !.last_value = quantize(ch.failure_value)]}
    ELSE IF ch.failure_kind = "RANDOM_WALK"
    THEN {[ch EXCEPT !.failure_value = ch.failure_value + g,
                     !.last_value = quantize(ch.failure_value + g)]
            : g \in GaussDraws(Scale(range(ch) * 35, 1, 100))}
    ELSE {[ch EXCEPT !.last_value = quantize(v)] : v \in SpikeDraws(ch)}

\* a channel that starts a fault of its own whenever a value is asked of it
generate_value_selftrigger(ch, t) ==
    IF ~ch.is_active THEN {[ch EXCEPT !.last_value = NO_SENSOR]}
    ELSE {[c2 EXCEPT !.last_value = NO_SENSOR] : c2 \in start_fault(maybe_end_fault(ch, t), t)}

\* generate_value: the channels it can leave behind (last_value is the value
\* returned)
generate_value(ch, t) ==
    IF ~ch.is_active THEN {[ch EXCEPT !.last_value = NO_SENSOR]}
    ELSE LET c1 == maybe_end_fault(ch, t)
         IN  IF c1.fault_mode = FAULT_DISCONNECTED
             THEN {[c1 EXCEPT !.last_value = NO_SENSOR]}
             ELSE IF c1.fault_mode = FAULT_FAILED THEN generate_failed_value(c1)
             ELSE generate_normal_value(c1)

\* get_status
get_status(ch) ==
    IF ~ch.is_active THEN "INACTIVE"
    ELSE IF ch.fault_mode = FAULT_DISCONNECTED THEN "OFFLINE"
    ELSE IF ch.fault_mode = FAULT_FAILED THEN "FAILED"
    ELSE "ACTIVE"

(***************************************************************************)
(* build_packet and generate_frame.                                        *)
(***************************************************************************)
\* struct.pack(">I", n)
PackU32(n) == <<n \div 16777216, (n \div 65536) % 256, (n \div 256) % 256, n % 256>>

\* struct.pack(">d", v): eight bytes.  The bit pattern of binary64 is stood
\* for by the big-endian two's complement of the value in model units, which
\* like it tells any two values apart.
PackDouble(v) ==
    IF v >= 0 THEN Zeros(4) \o PackU32(v)
    ELSE [i \in 1..8 |-> 255 - (Zeros(4) \o PackU32(0 - v - 1))[i]]

\* a length field that leaves the trailer out
TotalLengthOfPayload(payload) == Len(payload)

\* total_length = len(payload) + 4
TotalLength(payload) == Len(payload) + 4

build_packet(values) ==
    LET header == Zeros(20)
        count_bytes == PackU32(Len(values))
        values_bytes == Flatten([i \in 1..Len(values) |-> PackDouble(values[i])])
        payload == header \o count_bytes \o values_bytes
        total_length == TotalLength(payload)
        trailer == PackU32(total_length)
    IN  PackU32(total_length) \o payload \o trailer

\* an injector that takes every channel for a candidate
AllChannels(chs) == 1..Len(chs)

\* candidates = the active channels in NORMAL mode
Candidates(chs) ==
    {i \in 1..Len(chs) : chs[i].is_active /\ chs[i].fault_mode = FAULT_NORMAL}

\* random.choice(candidates) if the weights max(0, anomaly_chance) sum to
\* nothing, else random.choices(candidates, weights)
Picks(chs) ==
    LET weighted == {i \in Candidates(chs) : chs[i].anomaly_chance > 0}
    IN  IF weighted = {} THEN Candidates(chs) ELSE weighted

\* the global fault injector: the channel lists it can leave behind
InjectFault(chs, chance, t) ==
    IF chance > 0
    THEN {chs} \cup UNION {{[chs EXCEPT ![i] = o[2]] : o \in trigger_fault(chs[i], t)}
                             : i \in Picks(chs)}
    ELSE {chs}

\* for channel in self.channels: value = channel.generate_value(now)
RECURSIVE GenerateFrom(_, _, _)
GenerateFrom(chs, i, t) ==
    IF i > Len(chs) THEN {chs}
    ELSE UNION {GenerateFrom([chs EXCEPT ![i] = c2], i + 1, t) : c2 \in generate_value(chs[i], t)}

\* the test that counts a value as an anomaly
IsAnomaly(ch) ==
    /\ ch.is_active
    /\ (ch.last_value = NO_SENSOR \/ ch.last_value < ch.min_val \/ ch.last_value > ch.max_val)

AnomalyCount(chs) == Cardinality({i \in 1..Len(chs) : IsAnomaly(chs[i])})

\* values: one per channel, in the order of self.channels
FrameValues(chs) == [i \in 1..Len(chs) |-> chs[i].last_value]

\* generate_frame, the part under data_lock: the channel lists it can leave
\* behind
generate_frame(chs, chance, t) ==
    UNION {GenerateFrom(c1, 1, t) : c1 \in InjectFault(chs, chance, t)}

\* a sender that writes every frame twice
SentTwice(out, packet) == out \o <<packet, packet>>

\* sendall(packet): what has been written to the socket
Sent(out, packet) == Append(out, packet)

(***************************************************************************)
(* State.                                                                  *)
(***************************************************************************)
VARIABLES
    running,            \* self.running
    client_connected,   \* self.client_connected: ONE flag for all clients
    clients_connected,  \* self.clients_connected
    commands_received,  \* self.commands_received
    packets_sent,       \* self.packets_sent
    equipment,          \* self.equipment: name -> EquipmentState
    command_log,        \* command_handler.command_log, entries <<name, value>>
    lock,               \* command_handler.lock: 0 free, else the receiver holding it
    data_lock,          \* self.data_lock: 0 free, else the sender holding it
    mainPc,             \* run_server: "start", "loop", "done"
    serverPc,           \* _server_loop: "none", "bind", "loop", "accept", "crashed", "closed"
    recvPc,             \* _handle_client of each connection
    sendPc,             \* _send_telemetry of each connection
    buffer,             \* _handle_client's local buffer
    cur,                \* the decoded command a receiver is dispatching
    tmp,                \* the value read by a receiver's commands_received += 1
    peer,               \* the remote end: "absent", "waiting", "connected", "closed"
    wire,               \* the segments each peer sends, in order
    pos,                \* how many of them the receiver has read
    dispatched,         \* history: the commands each receiver passed to handle_command
    lockOrder,          \* history: <<client, name, value>> in the order the lock was taken
    streamed,           \* history: a frame was written to this connection
    diagnostics,        \* what the process wrote to its error output
    channels,           \* self.channels: the ChannelConfig objects, in order
    fault_global_chance, \* self.fault_global_chance, in thousandths
    anomalies_generated, \* self.anomalies_generated
    now,                \* time.time(), in seconds since the start
    horizon,            \* how long the scenario lasts
    quota,              \* telemetry frames the scenario follows
    ui,                 \* front-end loop iterations the scenario still follows
    index,              \* the argument of _toggle_channel_by_index
    call,               \* the last call made on a ChannelConfig from outside
    gen_now,            \* generate_frame's local now of each sender
    generated,          \* history: the packets generate_frame returned to each sender
    written,            \* history: the packets each sender wrote to its socket
    skipped             \* history: how many pacing sleeps each sender skipped

srvVars == <<running, client_connected, clients_connected, mainPc, serverPc, diagnostics>>
cmdVars == <<commands_received, equipment, command_log, lock, lockOrder>>
rcvVars == <<recvPc, buffer, cur, tmp, pos, dispatched>>
sndVars == <<sendPc, packets_sent, data_lock, streamed>>
envVars == <<peer, wire>>
feVars ==
    <<channels, fault_global_chance, anomalies_generated, now, horizon, quota, ui, index, call>>
frVars == <<gen_now, generated, written, skipped>>
vars == <<srvVars, cmdVars, rcvVars, sndVars, envVars, feVars, frVars>>

\* a with block that is left with its lock still held by thread t
release_skipped(t) == t

\* leaving a "with lock:" block, normally or by an exception, releases the
\* lock thread t held: the lock has no holder afterwards
release(t) == 0

\* a data_lock that keeps nobody out
DataLockIgnored == TRUE

\* "with self.data_lock:" lets a thread in only while no other holds the lock
DataLockFree == data_lock = 0

\* a dispatcher without mutual exclusion
LockIgnored == TRUE

\* "with self.lock:" lets a thread in only while no other holds the lock
LockFree == lock = 0

\* no call has been made on a channel yet
NoCall == [op |-> "none", i |-> 0, t |-> 0, ret |-> FALSE, n |-> 0]

RECURSIVE CountFrames(_, _)
CountFrames(g, n) == IF n = 0 THEN 0 ELSE Len(g[n]) + CountFrames(g, n - 1)

\* telemetry frames generated so far, over all senders
FramesGenerated == CountFrames(generated, MaxClients)

(***************************************************************************)
(* run_server: the front-end thread.                                       *)
(***************************************************************************)
\* lines 664-668: start the server thread, enter the front-end loop
MainStart ==
    /\ mainPc = "start"
    /\ mainPc' = "loop"
    /\ serverPc' = "bind"
    /\ UNCHANGED <<running, client_connected, clients_connected, diagnostics>>
    /\ UNCHANGED <<cmdVars, rcvVars, sndVars, envVars>>
    /\ UNCHANGED <<feVars, frVars>>

\* 'q', the duration timer or Ctrl-C: running = False, leave the loop
MainQuit ==
    /\ mainPc = "loop"
    /\ mainPc' = "done"
    /\ running' = FALSE
    /\ UNCHANGED <<client_connected, clients_connected, serverPc, diagnostics>>
    /\ UNCHANGED <<cmdVars, rcvVars, sndVars, envVars>>
    /\ UNCHANGED <<feVars, frVars>>

\* the holder of a lock when it is the front-end thread
MainHolder == MaxClients + 1

\* select finds no key, or a key that only scrolls or edits the input
\* buffer: on to the rendering
MainNoKey ==
    /\ mainPc = "loop"
    /\ ui > 0
    /\ mainPc' = "render"
    /\ UNCHANGED <<running, client_connected, clients_connected, serverPc, diagnostics>>
    /\ UNCHANGED <<cmdVars, rcvVars, sndVars, envVars, feVars, frVars>>

\* 'r': with self.data_lock:
MainKeyReset ==
    /\ mainPc = "loop"
    /\ ui > 0
    /\ DataLockFree
    /\ data_lock' = MainHolder
    /\ mainPc' = "reset"
    /\ UNCHANGED <<running, client_connected, clients_connected, serverPc, diagnostics>>
    /\ UNCHANGED <<cmdVars, rcvVars, envVars, feVars, frVars>>
    /\ UNCHANGED <<sendPc, packets_sent, streamed>>

\* packets_sent = 0, anomalies_generated = 0, and the lock is released
MainReset ==
    /\ mainPc = "reset"
    /\ packets_sent' = 0
    /\ anomalies_generated' = 0
    /\ data_lock' = 0
    /\ mainPc' = "render"
    /\ UNCHANGED <<running, client_connected, clients_connected, serverPc, diagnostics>>
    /\ UNCHANGED <<cmdVars, rcvVars, envVars, frVars>>
    /\ UNCHANGED <<sendPc, streamed>>
    /\ UNCHANGED <<channels, fault_global_chance, now, horizon, quota, ui, index, call>>

\* ' ': _toggle_visible_channels, with self.data_lock:
MainKeyToggleAll ==
    /\ mainPc = "loop"
    /\ ui > 0
    /\ DataLockFree
    /\ data_lock' = MainHolder
    /\ index' = 0
    /\ mainPc' = "toggleAll"
    /\ UNCHANGED <<running, client_connected, clients_connected, serverPc, diagnostics>>
    /\ UNCHANGED <<cmdVars, rcvVars, envVars, frVars>>
    /\ UNCHANGED <<sendPc, packets_sent, streamed>>
    /\ UNCHANGED <<channels, fault_global_chance, anomalies_generated, now, horizon, quota, ui, call>>

\* channel.set_active(not channel.is_active), for the k-th channel
ToggleStep(chs, k) == [chs EXCEPT ![k] = set_active(@, ~chs[k].is_active)]

\* for channel in self.channels: one turn of the loop; index counts the
\* channels already toggled
MainToggleAll ==
    /\ mainPc = "toggleAll"
    /\ index < Len(channels)
    /\ channels' = ToggleStep(channels, index + 1)
    /\ index' = index + 1
    /\ UNCHANGED <<srvVars, cmdVars, rcvVars, sndVars, envVars, frVars>>
    /\ UNCHANGED <<fault_global_chance, anomalies_generated, now, horizon, quota, ui, call>>

\* the loop is over: the lock is released
MainToggleAllDone ==
    /\ mainPc = "toggleAll"
    /\ index >= Len(channels)
    /\ data_lock' = 0
    /\ mainPc' = "render"
    /\ UNCHANGED <<running, client_connected, clients_connected, serverPc, diagnostics>>
    /\ UNCHANGED <<cmdVars, rcvVars, envVars, feVars, frVars>>
    /\ UNCHANGED <<sendPc, packets_sent, streamed>>

\* a channel number and Enter: _toggle_channel_by_index(i), with
\* self.data_lock:
MainKeyToggleOne(i) ==
    /\ mainPc = "loop"
    /\ ui > 0
    /\ DataLockFree
    /\ data_lock' = MainHolder
    /\ index' = i
    /\ mainPc' = "toggleOne"
    /\ UNCHANGED <<running, client_connected, clients_connected, serverPc, diagnostics>>
    /\ UNCHANGED <<cmdVars, rcvVars, envVars, frVars>>
    /\ UNCHANGED <<sendPc, packets_sent, streamed>>
    /\ UNCHANGED <<channels, fault_global_chance, anomalies_generated, now, horizon, quota, ui, call>>

\* if 1 <= index <= len(self.channels): set_active(not is_active)
ToggleOne(chs, i) ==
    IF 1 <= i /\ i <= Len(chs)
    THEN [chs EXCEPT ![i] = set_active(@, ~chs[i].is_active)]
    ELSE chs

MainToggleOne ==
    /\ mainPc = "toggleOne"
    /\ channels' = ToggleOne(channels, index)
    /\ data_lock' = 0
    /\ mainPc' = "render"
    /\ UNCHANGED <<running, client_connected, clients_connected, serverPc, diagnostics>>
    /\ UNCHANGED <<cmdVars, rcvVars, envVars, frVars>>
    /\ UNCHANGED <<sendPc, packets_sent, streamed>>
    /\ UNCHANGED <<fault_global_chance, anomalies_generated, now, horizon, quota, ui, index, call>>

\* _render_screen, lines 538-547: reads client_connected, packets_sent,
\* anomalies_generated and clients_connected
MainRenderStats ==
    /\ mainPc = "render"
    /\ mainPc' = "equip"
    /\ UNCHANGED <<running, client_connected, clients_connected, serverPc, diagnostics>>
    /\ UNCHANGED <<cmdVars, rcvVars, sndVars, envVars, feVars, frVars>>

\* _render_screen, lines 558-562: reads every entry of self.equipment
MainRenderEquipment ==
    /\ mainPc = "equip"
    /\ mainPc' = "recent"
    /\ UNCHANGED <<running, client_connected, clients_connected, serverPc, diagnostics>>
    /\ UNCHANGED <<cmdVars, rcvVars, sndVars, envVars, feVars, frVars>>

\* get_recent_commands: with self.lock:
MainRecentLock ==
    /\ mainPc = "recent"
    /\ LockFree
    /\ lock' = MainHolder
    /\ mainPc' = "recentHeld"
    /\ UNCHANGED <<running, client_connected, clients_connected, serverPc, diagnostics>>
    /\ UNCHANGED <<rcvVars, sndVars, envVars, feVars, frVars>>
    /\ UNCHANGED <<commands_received, equipment, command_log, lockOrder>>

\* return self.command_log[-count:], and the lock is released
MainRecentUnlock ==
    /\ mainPc = "recentHeld"
    /\ lock' = 0
    /\ mainPc' = "snap"
    /\ UNCHANGED <<running, client_connected, clients_connected, serverPc, diagnostics>>
    /\ UNCHANGED <<rcvVars, sndVars, envVars, feVars, frVars>>
    /\ UNCHANGED <<commands_received, equipment, command_log, lockOrder>>

\* _render_screen, line 600: with self.data_lock:
MainSnapLock ==
    /\ mainPc = "snap"
    /\ DataLockFree
    /\ data_lock' = MainHolder
    /\ mainPc' = "snapHeld"
    /\ UNCHANGED <<running, client_connected, clients_connected, serverPc, diagnostics>>
    /\ UNCHANGED <<cmdVars, rcvVars, envVars, feVars, frVars>>
    /\ UNCHANGED <<sendPc, packets_sent, streamed>>

\* the channel rows are read, the lock is released, the screen is written
\* and the loop goes round
MainSnapUnlock ==
    /\ mainPc = "snapHeld"
    /\ data_lock' = 0
    /\ ui' = ui - 1
    /\ mainPc' = "loop"
    /\ UNCHANGED <<running, client_connected, clients_connected, serverPc, diagnostics>>
    /\ UNCHANGED <<cmdVars, rcvVars, envVars, frVars>>
    /\ UNCHANGED <<sendPc, packets_sent, streamed>>
    /\ UNCHANGED <<channels, fault_global_chance, anomalies_generated, now, horizon, quota, index, call>>

(***************************************************************************)
(* The clock, and calls made on one ChannelConfig from outside the server. *)
(***************************************************************************)
\* a second passes
Tick ==
    /\ now < horizon
    /\ now' = now + 1
    /\ call' = [call EXCEPT !.op = "tick"]
    /\ UNCHANGED <<srvVars, cmdVars, rcvVars, sndVars, envVars, frVars>>
    /\ UNCHANGED <<channels, fault_global_chance, anomalies_generated, horizon, quota, ui, index>>

\* channels[i].set_active(b)
ChSetActive(i, b) ==
    /\ call.n < MaxCalls
    /\ channels' = [channels EXCEPT ![i] = set_active(@, b)]
    /\ call' = [op |-> "set_active", i |-> i, t |-> now, ret |-> b, n |-> call.n + 1]
    /\ UNCHANGED <<srvVars, cmdVars, rcvVars, sndVars, envVars, frVars>>
    /\ UNCHANGED <<fault_global_chance, anomalies_generated, now, horizon, quota, ui, index>>

\* channels[i].trigger_fault(now)
ChTriggerFault(i) ==
    /\ call.n < MaxCalls
    /\ \E o \in trigger_fault(channels[i], now) :
          /\ channels' = [channels EXCEPT ![i] = o[2]]
          /\ call' = [op |-> "trigger_fault", i |-> i, t |-> now, ret |-> o[1], n |-> call.n + 1]
    /\ UNCHANGED <<srvVars, cmdVars, rcvVars, sndVars, envVars, frVars>>
    /\ UNCHANGED <<fault_global_chance, anomalies_generated, now, horizon, quota, ui, index>>

\* channels[i].generate_value(now)
ChGenerateValue(i) ==
    /\ call.n < MaxCalls
    /\ \E c2 \in generate_value(channels[i], now) :
          /\ channels' = [channels EXCEPT ![i] = c2]
          /\ call' = [op |-> "generate_value", i |-> i, t |-> now, ret |-> c2.last_value,
                      n |-> call.n + 1]
    /\ UNCHANGED <<srvVars, cmdVars, rcvVars, sndVars, envVars, frVars>>
    /\ UNCHANGED <<fault_global_chance, anomalies_generated, now, horizon, quota, ui, index>>

\* generate_frame(), with no other thread about
ChGenerateFrame ==
    /\ call.n < MaxCalls
    /\ DataLockFree
    /\ \E chs \in generate_frame(channels, fault_global_chance, now) :
          /\ channels' = chs
          /\ anomalies_generated' = anomalies_generated + AnomalyCount(chs)
          /\ call' = [op |-> "generate_frame", i |-> 0, t |-> now,
                      ret |-> build_packet(FrameValues(chs)), n |-> call.n + 1]
    /\ packets_sent' = packets_sent + 1
    /\ UNCHANGED <<srvVars, cmdVars, rcvVars, envVars, frVars>>
    /\ UNCHANGED <<sendPc, data_lock, streamed>>
    /\ UNCHANGED <<fault_global_chance, now, horizon, quota, ui, index>>

(***************************************************************************)
(* _server_loop: the accept thread.                                        *)
(***************************************************************************)
\* bind and listen succeed
ServerBindOk ==
    /\ serverPc = "bind"
    /\ serverPc' = "loop"
    /\ UNCHANGED <<running, client_connected, clients_connected, mainPc, diagnostics>>
    /\ UNCHANGED <<cmdVars, rcvVars, sndVars, envVars>>
    /\ UNCHANGED <<feVars, frVars>>

\* bind or listen raises OSError: nothing in _server_loop catches it, the
\* thread dies and threading's excepthook prints the traceback
ServerBindFail ==
    /\ serverPc = "bind"
    /\ serverPc' = "crashed"
    /\ diagnostics' = diagnostics \cup {<<"_server_loop", "OSError">>}
    /\ UNCHANGED <<running, client_connected, clients_connected, mainPc>>
    /\ UNCHANGED <<cmdVars, rcvVars, sndVars, envVars>>
    /\ UNCHANGED <<feVars, frVars>>

\* while self.running: ... ; server_socket.close()
ServerLoop ==
    /\ serverPc = "loop"
    /\ serverPc' = IF running THEN "accept" ELSE "closed"
    /\ UNCHANGED <<running, client_connected, clients_connected, mainPc, diagnostics>>
    /\ UNCHANGED <<cmdVars, rcvVars, sndVars, envVars>>
    /\ UNCHANGED <<feVars, frVars>>

\* the peers are numbered in the order they are accepted
NextPeer(c) == peer[c] = "waiting" /\ \A d \in Clients : d < c => peer[d] # "waiting"

\* accept returns a connection: lines 792-802
ServerAccept(c) ==
    /\ serverPc = "accept"
    /\ NextPeer(c)
    /\ peer' = [peer EXCEPT ![c] = "connected"]
    /\ client_connected' = TRUE
    /\ clients_connected' = clients_connected + 1
    /\ recvPc' = [recvPc EXCEPT ![c] = "start"]
    /\ serverPc' = "loop"
    /\ UNCHANGED <<running, mainPc, diagnostics, wire>>
    /\ UNCHANGED <<cmdVars, buffer, cur, tmp, pos, dispatched, sndVars>>
    /\ UNCHANGED <<feVars, frVars>>

\* accept times out after 1 s: continue
ServerAcceptTimeout ==
    /\ serverPc = "accept"
    /\ serverPc' = "loop"
    /\ UNCHANGED <<running, client_connected, clients_connected, mainPc, diagnostics>>
    /\ UNCHANGED <<cmdVars, rcvVars, sndVars, envVars>>
    /\ UNCHANGED <<feVars, frVars>>

\* accept raises another OSError: break, server_socket.close()
ServerAcceptError ==
    /\ serverPc = "accept"
    /\ serverPc' = "closed"
    /\ UNCHANGED <<running, client_connected, clients_connected, mainPc, diagnostics>>
    /\ UNCHANGED <<cmdVars, rcvVars, sndVars, envVars>>
    /\ UNCHANGED <<feVars, frVars>>

(***************************************************************************)
(* EquipmentState.set_state and ControlCommandHandler.handle_command.      *)
(***************************************************************************)
\* a set_state that records every call as a change
set_state_always(e, is_on) ==
    [is_on |-> is_on, last_change |-> now, change_count |-> e.change_count + 1]

\* EquipmentState.set_state; time.time() is the clock of the model
set_state(e, is_on) ==
    IF e.is_on # is_on
    THEN [is_on |-> is_on, last_change |-> now, change_count |-> e.change_count + 1]
    ELSE e

\* a log that is never cut
LogAppendUnbounded(log, entry) == Append(log, entry)

\* command_log.append(...), then keep the last 50
LogAppend(log, entry) ==
    LET l == Append(log, entry)
    IN  IF Len(l) > LOG_CAP THEN SubSeq(l, Len(l) - LOG_CAP + 1, Len(l)) ELSE l

\* what a failed lookup stands for: no EquipmentState has this change_count
KeyError == [is_on |-> FALSE, last_change |-> 0, change_count |-> 0 - 1]

\* a registry that makes a new EquipmentState for a name it does not hold
LookupDefault(eq, name) ==
    IF name \in DOMAIN eq
    THEN eq[name]
    ELSE [is_on |-> FALSE, last_change |-> now, change_count |-> 0]

\* self.equipment[name] of a dict: the entry, or KeyError
Lookup(eq, name) == IF name \in DOMAIN eq THEN eq[name] ELSE KeyError

\* a handle_command that no lookup makes raise
HandleNeverRaises(eq, name) == FALSE

\* self.equipment[command_name] raises KeyError
HandleRaises(eq, name) ==
    /\ name # CAMERA
    /\ name # RECORDING
    /\ StartsWithDO(name)
    /\ Lookup(eq, name) = KeyError

\* the registry in which the entry looked up under name is e
WithEntry(eq, name, e) == [n \in DOMAIN eq \cup {name} |-> IF n = name THEN e ELSE eq[n]]

\* the if / elif chain of lines 373-379
ApplyCommand(eq, name, value_str) ==
    IF name = CAMERA
    THEN WithEntry(eq, CAMERA, set_state(Lookup(eq, CAMERA), value_str = ON))
    ELSE IF name = RECORDING
    THEN WithEntry(eq, RECORDING, set_state(Lookup(eq, RECORDING), value_str = ON))
    ELSE IF StartsWithDO(name)
    THEN WithEntry(eq, name, set_state(Lookup(eq, name), value_str # ZERO))
    ELSE eq

(***************************************************************************)
(* _handle_client: the receiver thread of one connection.                  *)
(***************************************************************************)
\* a receiver that drops what is left in its buffer when new bytes arrive
RecvReplace(buf, data) == data

\* buffer += data
RecvAppend(buf, data) == buf \o data

\* the buffer holds a complete length-prefixed command
HasCommand(buf) == Len(buf) >= 4 /\ Len(buf) >= 4 + U32(buf)

\* command_data = buffer[4:4 + length]
CommandData(buf) == SubSeq(buf, 5, 4 + U32(buf))

\* buffer = buffer[4 + length:]
AfterCommand(buf) == SubSeq(buf, 5 + U32(buf), Len(buf))

\* lines 817-825: set the socket timeout, start the sender thread
HandleClientStart(c) ==
    /\ recvPc[c] = "start"
    /\ recvPc' = [recvPc EXCEPT ![c] = "loop"]
    /\ sendPc' = [sendPc EXCEPT ![c] = "check"]
    /\ UNCHANGED <<srvVars, cmdVars, envVars>>
    /\ UNCHANGED <<buffer, cur, tmp, pos, dispatched, packets_sent, data_lock, streamed>>
    /\ UNCHANGED <<feVars, frVars>>

\* while self.running:
RecvLoop(c) ==
    /\ recvPc[c] = "loop"
    /\ recvPc' = [recvPc EXCEPT ![c] = IF running THEN "recv" ELSE "close"]
    /\ UNCHANGED <<srvVars, cmdVars, sndVars, envVars>>
    /\ UNCHANGED <<buffer, cur, tmp, pos, dispatched>>
    /\ UNCHANGED <<feVars, frVars>>

\* recv returns the next k segments the peer sent, coalesced
RecvData(c, k) ==
    /\ recvPc[c] = "recv"
    /\ pos[c] + k <= Len(wire[c])
    /\ buffer' = [buffer EXCEPT ![c] =
                    RecvAppend(@, Flatten(SubSeq(wire[c], pos[c] + 1, pos[c] + k)))]
    /\ pos' = [pos EXCEPT ![c] = @ + k]
    /\ recvPc' = [recvPc EXCEPT ![c] = "parse"]
    /\ UNCHANGED <<srvVars, cmdVars, sndVars, envVars>>
    /\ UNCHANGED <<cur, tmp, dispatched>>
    /\ UNCHANGED <<feVars, frVars>>

\* a receiver whose socket has no timeout
RecvBlocks(c) == FALSE

\* settimeout(5.0) bounds recv while the peer is silent
RecvTimesOut(c) == peer[c] = "connected"

\* except socket.timeout: continue
RecvTimeout(c) ==
    /\ recvPc[c] = "recv"
    /\ RecvTimesOut(c)
    /\ recvPc' = [recvPc EXCEPT ![c] = "loop"]
    /\ UNCHANGED <<srvVars, cmdVars, sndVars, envVars>>
    /\ UNCHANGED <<buffer, cur, tmp, pos, dispatched>>
    /\ UNCHANGED <<feVars, frVars>>

\* the peer closes or resets the connection (or the network drops it) and
\* recv returns b"" or raises: either way the loop is left for the finally block
RecvEnd(c) ==
    /\ recvPc[c] = "recv"
    /\ peer[c] = "connected"
    /\ peer' = [peer EXCEPT ![c] = "closed"]
    /\ recvPc' = [recvPc EXCEPT ![c] = "close"]
    /\ UNCHANGED <<srvVars, cmdVars, sndVars, wire>>
    /\ UNCHANGED <<buffer, cur, tmp, pos, dispatched>>
    /\ UNCHANGED <<feVars, frVars>>

\* while len(buffer) >= 4: ... if len(buffer) < 4 + length: break
ParseDone(c) ==
    /\ recvPc[c] = "parse"
    /\ ~HasCommand(buffer[c])
    /\ recvPc' = [recvPc EXCEPT ![c] = "loop"]
    /\ UNCHANGED <<srvVars, cmdVars, sndVars, envVars>>
    /\ UNCHANGED <<buffer, cur, tmp, pos, dispatched>>
    /\ UNCHANGED <<feVars, frVars>>

\* a complete command that parse_command decodes to None: dropped
ParseIgnore(c) ==
    /\ recvPc[c] = "parse"
    /\ HasCommand(buffer[c])
    /\ parse_command(CommandData(buffer[c])) = None
    /\ buffer' = [buffer EXCEPT ![c] = AfterCommand(@)]
    /\ UNCHANGED <<srvVars, cmdVars, sndVars, envVars>>
    /\ UNCHANGED <<recvPc, cur, tmp, pos, dispatched>>
    /\ UNCHANGED <<feVars, frVars>>

\* a complete command that decodes: call handle_command
ParseDispatch(c) ==
    /\ recvPc[c] = "parse"
    /\ HasCommand(buffer[c])
    /\ parse_command(CommandData(buffer[c])) # None
    /\ buffer' = [buffer EXCEPT ![c] = AfterCommand(@)]
    /\ cur' = [cur EXCEPT ![c] = parse_command(CommandData(buffer[c]))]
    /\ dispatched' = [dispatched EXCEPT ![c] = Append(@, parse_command(CommandData(buffer[c])))]
    /\ recvPc' = [recvPc EXCEPT ![c] = "handle"]
    /\ UNCHANGED <<srvVars, cmdVars, sndVars, envVars>>
    /\ UNCHANGED <<tmp, pos>>
    /\ UNCHANGED <<feVars, frVars>>

\* handle_command, lines 364-370: take the lock, append to the log
HandleLock(c) ==
    /\ recvPc[c] = "handle"
    /\ LockFree
    /\ lock' = c
    /\ command_log' = LogAppend(command_log, cur[c])
    /\ lockOrder' = Append(lockOrder, <<c, cur[c][1], cur[c][2]>>)
    /\ recvPc' = [recvPc EXCEPT ![c] = "apply"]
    /\ UNCHANGED <<srvVars, sndVars, envVars>>
    /\ UNCHANGED <<commands_received, equipment, buffer, cur, tmp, pos, dispatched>>
    /\ UNCHANGED <<feVars, frVars>>

\* handle_command, lines 372-379: update the registry, release the lock
HandleApply(c) ==
    /\ recvPc[c] = "apply"
    /\ ~HandleRaises(equipment, cur[c][1])
    /\ equipment' = ApplyCommand(equipment, cur[c][1], cur[c][2])
    /\ lock' = release(c)
    /\ recvPc' = [recvPc EXCEPT ![c] = "count"]
    /\ UNCHANGED <<srvVars, sndVars, envVars>>
    /\ UNCHANGED <<commands_received, command_log, lockOrder, buffer, cur, tmp, pos, dispatched>>
    /\ UNCHANGED <<feVars, frVars>>

\* the lookup raises KeyError: the with block releases the lock, the
\* exception reaches "except Exception as e: pass" of line 861
HandleKeyError(c) ==
    /\ recvPc[c] = "apply"
    /\ HandleRaises(equipment, cur[c][1])
    /\ lock' = release(c)
    /\ recvPc' = [recvPc EXCEPT ![c] = "close"]
    /\ UNCHANGED <<srvVars, sndVars, envVars>>
    /\ UNCHANGED <<commands_received, equipment, command_log, lockOrder>>
    /\ UNCHANGED <<buffer, cur, tmp, pos, dispatched>>
    /\ UNCHANGED <<feVars, frVars>>

\* self.commands_received += 1 is a read ...
CountRead(c) ==
    /\ recvPc[c] = "count"
    /\ tmp' = [tmp EXCEPT ![c] = commands_received]
    /\ recvPc' = [recvPc EXCEPT ![c] = "store"]
    /\ UNCHANGED <<srvVars, cmdVars, sndVars, envVars>>
    /\ UNCHANGED <<buffer, cur, pos, dispatched>>
    /\ UNCHANGED <<feVars, frVars>>

\* ... and a write, with no lock around them
CountWrite(c) ==
    /\ recvPc[c] = "store"
    /\ commands_received' = tmp[c] + 1
    /\ tmp' = [tmp EXCEPT ![c] = 0]
    /\ recvPc' = [recvPc EXCEPT ![c] = "parse"]
    /\ UNCHANGED <<srvVars, sndVars, envVars>>
    /\ UNCHANGED <<equipment, command_log, lock, lockOrder, buffer, cur, pos, dispatched>>
    /\ UNCHANGED <<feVars, frVars>>

\* finally: client_socket.close()
ClientClose(c) ==
    /\ recvPc[c] = "close"
    /\ recvPc' = [recvPc EXCEPT ![c] = "flag"]
    /\ UNCHANGED <<srvVars, cmdVars, sndVars, envVars>>
    /\ UNCHANGED <<buffer, cur, tmp, pos, dispatched>>
    /\ UNCHANGED <<feVars, frVars>>

\* finally: with self.data_lock: self.client_connected = False
ClientClearFlag(c) ==
    /\ recvPc[c] = "flag"
    /\ DataLockFree
    /\ client_connected' = FALSE
    /\ recvPc' = [recvPc EXCEPT ![c] = "done"]
    /\ UNCHANGED <<running, clients_connected, mainPc, serverPc, diagnostics>>
    /\ UNCHANGED <<cmdVars, sndVars, envVars>>
    /\ UNCHANGED <<buffer, cur, tmp, pos, dispatched>>
    /\ UNCHANGED <<feVars, frVars>>

\* the connection's socket is open on the server side
SocketOpen(c) == recvPc[c] \in {"start", "loop", "recv", "parse", "handle", "apply", "count", "store", "close"}

(***************************************************************************)
(* _send_telemetry: the sender thread of one connection.                   *)
(***************************************************************************)
\* while self.running and self.client_connected: go on to generate_frame,
\* which reads the time and then waits for data_lock
SendContinue(c) ==
    /\ sendPc[c] = "check"
    /\ running /\ client_connected
    /\ FramesGenerated < quota
    /\ sendPc' = [sendPc EXCEPT ![c] = "wait"]
    /\ gen_now' = [gen_now EXCEPT ![c] = now]
    /\ UNCHANGED <<srvVars, cmdVars, rcvVars, envVars>>
    /\ UNCHANGED <<packets_sent, data_lock, streamed>>
    /\ UNCHANGED <<feVars, generated, written, skipped>>

\* the loop condition is false: the sender thread ends
SendExit(c) ==
    /\ sendPc[c] = "check"
    /\ ~(running /\ client_connected)
    /\ sendPc' = [sendPc EXCEPT ![c] = "done"]
    /\ UNCHANGED <<srvVars, cmdVars, rcvVars, envVars>>
    /\ UNCHANGED <<packets_sent, data_lock, streamed>>
    /\ UNCHANGED <<feVars, frVars>>

\* generate_frame: with self.data_lock:
GenFrameLock(c) ==
    /\ sendPc[c] = "wait"
    /\ DataLockFree
    /\ data_lock' = c
    /\ sendPc' = [sendPc EXCEPT ![c] = "gen"]
    /\ UNCHANGED <<srvVars, cmdVars, rcvVars, envVars>>
    /\ UNCHANGED <<packets_sent, streamed>>
    /\ UNCHANGED <<feVars, frVars>>

\* generate_frame: the frame is built, packets_sent += 1, the lock released
GenFrameUnlock(c) ==
    /\ sendPc[c] = "gen"
    /\ \E chs \in generate_frame(channels, fault_global_chance, gen_now[c]) :
          /\ channels' = chs
          /\ anomalies_generated' = anomalies_generated + AnomalyCount(chs)
          /\ generated' = [generated EXCEPT ![c] = Append(@, build_packet(FrameValues(chs)))]
    /\ packets_sent' = packets_sent + 1
    /\ data_lock' = release(c)
    /\ sendPc' = [sendPc EXCEPT ![c] = "send"]
    /\ UNCHANGED <<srvVars, cmdVars, rcvVars, envVars>>
    /\ UNCHANGED <<streamed>>
    /\ UNCHANGED <<fault_global_chance, now, horizon, quota, ui, index, call, gen_now, written, skipped>>

\* the packet generate_frame returned to sender c last
Packet(c) == generated[c][Len(generated[c])]

\* elapsed = time.time() - start
Elapsed(c) == now - gen_now[c]

\* sendall writes the frame; sleep_time > 0: the pacing sleep
SendOk(c) ==
    /\ sendPc[c] = "send"
    /\ SocketOpen(c)
    /\ INTERVAL - Elapsed(c) > 0
    /\ streamed' = [streamed EXCEPT ![c] = TRUE]
    /\ written' = [written EXCEPT ![c] = Sent(@, Packet(c))]
    /\ sendPc' = [sendPc EXCEPT ![c] = "check"]
    /\ UNCHANGED <<srvVars, cmdVars, rcvVars, envVars>>
    /\ UNCHANGED <<packets_sent, data_lock>>
    /\ UNCHANGED <<feVars, gen_now, generated, skipped>>

\* sendall writes the frame, and generating and writing took longer than the
\* interval (sleep_time <= 0): no sleep, on to the next iteration
SendOverrun(c) ==
    /\ sendPc[c] = "send"
    /\ SocketOpen(c)
    /\ INTERVAL - Elapsed(c) <= 0
    /\ streamed' = [streamed EXCEPT ![c] = TRUE]
    /\ written' = [written EXCEPT ![c] = Sent(@, Packet(c))]
    /\ skipped' = [skipped EXCEPT ![c] = @ + 1]
    /\ sendPc' = [sendPc EXCEPT ![c] = "check"]
    /\ UNCHANGED <<srvVars, cmdVars, rcvVars, envVars>>
    /\ UNCHANGED <<packets_sent, data_lock>>
    /\ UNCHANGED <<feVars, gen_now, generated>>

\* sendall raises: the 5 s timeout (a peer that does not read), a reset or
\* broken pipe, or the socket closed by this connection's receiver: break
SendFail(c) ==
    /\ sendPc[c] = "send"
    /\ sendPc' = [sendPc EXCEPT ![c] = "failed"]
    /\ UNCHANGED <<srvVars, cmdVars, rcvVars, envVars>>
    /\ UNCHANGED <<packets_sent, data_lock, streamed>>
    /\ UNCHANGED <<feVars, frVars>>

(***************************************************************************)
(* Workloads: which peers connect and what each sends.                     *)
(***************************************************************************)
\* the first n peers connect, peer c sends the segments w[c]
Workload(n, w) ==
    [peer |-> [c \in Clients |-> IF c <= n THEN "waiting" ELSE "absent"],
     wire |-> [c \in Clients |-> IF c <= n THEN w[c] ELSE <<>>],
     channels |-> <<>>,
     fault_global_chance |-> 0,
     horizon |-> 0,
     quota |-> MaxPackets,
     ui |-> 0]

\* the channels of a configuration: ChannelConfig(...) for each entry
Channels(cfgs) == [i \in 1..Len(cfgs) |-> ChannelInit(cfgs[i])]

\* n peers that send nothing, the channels of cfgs, fault_global_chance,
\* `seconds' of clock, `frames' telemetry frames and `iterations' rounds of
\* the front-end loop
Scenario(n, cfgs, chance, seconds, frames, iterations) ==
    [Workload(n, [c \in Clients |-> <<>>]) EXCEPT
        !.channels = Channels(cfgs),
        !.fault_global_chance = chance,
        !.horizon = seconds,
        !.quota = frames,
        !.ui = iterations]

\* channel configurations, as load_config hands them to ChannelConfig:
\* a channel that holds the middle of 0.000 .. 0.010
SteadyChannel ==
    [min_val |-> 0, max_val |-> 10 * QUANTUM, is_active |-> TRUE,
     anomaly_chance |-> 20, noise_factor |-> 0, drift_factor |-> 0]

\* the same channel, configured inactive
IdleChannel == [SteadyChannel EXCEPT !.is_active = FALSE]

\* a channel with noise
NoisyChannel == [SteadyChannel EXCEPT !.noise_factor = 1000]

\* a channel whose bounds 0.0002 and 0.0026 are not multiples of 0.001 and
\* whose drift reaches them
OffGridChannel ==
    [min_val |-> 1, max_val |-> 13, is_active |-> TRUE,
     anomaly_chance |-> 20, noise_factor |-> 0, drift_factor |-> 1000]

\* the front end alone: no peer, one channel, the keys and the screen
FrontEndOnly == Scenario(0, <<SteadyChannel>>, 0, 1, 0, MaxUi)

\* one silent peer and a second of clock, in which a frame can overrun its
\* interval
SlowFrame == Scenario(1, <<>>, 0, 1, MaxFrames, 0)

\* the scenarios every family of workloads includes
CommonWorkloads == {FrontEndOnly, SlowFrame}

\* one channel of every configuration, and one with the fault injector on,
\* for MaxTime seconds
ChannelScenarios ==
    {Scenario(0, <<cfg>>, 0, MaxTime, 0, 0) :
        cfg \in {IdleChannel, NoisyChannel, OffGridChannel}}
    \cup {Scenario(0, <<SteadyChannel>>, 500, MaxTime, 0, 0)}

\* short commands over the wire: [u32 length = 8][4 bytes][u16 code][u16 value],
\* with the camera's code, the recorder's and two that are neither
ShortFrames ==
    {LenPrefix(8) \o first \o code \o value :
        first \in {Zeros(4), LenPrefix(8)},
        code \in {<<0, CMD_CAMERA_POWER>>, <<0, CMD_RECORDING_MODE>>, <<0, 18>>,
                  <<CMD_CAMERA_POWER, 0>>},
        value \in {<<1, 1>>, <<0, 0>>, <<1, 0>>, <<0, 1>>}}

\* a payload of n bytes, all zero but for "DO01" 00 01 from offset k on, cut
\* off at the end of the payload
MarkerAt(k, n) == SubSeq(Zeros(k) \o DO01 \o <<0, 1>> \o Zeros(n), 1, n)

\* DO commands over the wire, the marker at the start of the payload, inside
\* it and at its end
MarkerFrames ==
    {LenPrefix(20) \o MarkerAt(k, 20) : k \in {0, 3, 4, 8, 14, 15, 16, 18}}
    \cup {LenPrefix(22) \o MarkerAt(k, 22) : k \in {0, 16, 17}}

\* decoding: one peer sends whole frames, one to a segment: a short command,
\* alone or after the camera and the recorder were switched on; or a DO
\* command; or a command for an output that is not registered with a camera
\* command behind it in its segment and a recorder command in the next
DecodeWorkloads ==
    {Workload(1, [c \in Clients |-> pre \o <<f>>]) :
        pre \in {<<>>, <<CamOnFrame \o RecOnFrame>>}, f \in ShortFrames}
    \cup {Workload(1, [c \in Clients |-> <<f>>]) : f \in MarkerFrames \cup {DO03OnFrame}}
    \cup {Workload(1, [c \in Clients |-> <<DO03OnFrame \o CamOnFrame, RecOnFrame>>])}
    \cup CommonWorkloads

\* n channels, by turns active and inactive
MixedChannels(n) == [i \in 1..n |-> IF i % 2 = 1 THEN SteadyChannel ELSE IdleChannel]

\* telemetry: one peer and up to MaxChannels channels with the keys of the
\* front end; one peer and two channels with the fault injector on; two
\* peers and one channel; and one peer that sends commands
FrameWorkloads ==
    {Scenario(1, MixedChannels(n), 0, 0, MaxFrames, MaxUi) : n \in 0..MaxChannels}
    \cup {Scenario(1, <<SteadyChannel, IdleChannel>>, 500, 0, MaxFrames, 0),
          Scenario(2, <<SteadyChannel>>, 0, 0, MaxFrames, 0),
          Workload(1, [c \in Clients |-> <<BadCodeFrame \o CamOnFrame, DO03OnFrame>>])}
    \cup CommonWorkloads

\* connection lifecycle: every peer connects, none sends a command
LifecycleWorkloads == {Workload(MaxClients, [c \in Clients |-> <<>>])} \cup CommonWorkloads

\* concurrent dispatch: two peers, each sends whole frames; the commands of
\* peer 1 (the last one for an output that is not registered) race with the
\* command of peer 2 for the same output
DispatchWorkloads ==
    {Workload(2, [c \in Clients |->
                    IF c = 1 THEN <<BadCodeFrame \o DO01OnFrame, DO03OnFrame>>
                    ELSE <<DO01OffFrame>>])}
    \cup CommonWorkloads

\* reassembly: one peer, whose stream arrives byte by byte: up to MaxCmds
\* frames of different lengths, then a camera command, then the start of
\* another
ReassemblyFrames == {RecOnFrame, DO03OnFrame, BadLenFrame}

ReassemblyStreams ==
    {Flatten(fs) \o CamOnFrame \o SubSeq(CamOffFrame, 1, 7) :
        fs \in SeqsUpTo(ReassemblyFrames, MaxCmds)}

ReassemblyWorkloads ==
    {Workload(1, [c \in Clients |-> Bytewise(b)]) : b \in ReassemblyStreams}
    \cup CommonWorkloads

\* malformed commands: one peer sends whole frames, one to a segment: up to
\* MaxCmds frames, malformed in every way or well-formed, then a camera
\* command
MalformedFrames ==
    {EmptyFrame, BadLenFrame, MidLenFrame, BadCodeFrame, NoMarkerFrame, RecOnFrame, DO03OnFrame}

MalformedWorkloads ==
    {Workload(1, [c \in Clients |-> fs \o <<CamOnFrame>>]) :
        fs \in SeqsUpTo(MalformedFrames, MaxCmds)}
    \cup CommonWorkloads

\* cancellation: either one peer connects and sends a malformed frame and a
\* camera command in one segment, then a command for an output that is not
\* registered; or two peers connect and send nothing
CancellationWorkloads ==
    {Workload(1, [c \in Clients |-> <<BadCodeFrame \o CamOnFrame, DO03OnFrame>>]),
     Workload(2, [c \in Clients |-> <<>>])}
    \cup CommonWorkloads

\* the control surface: one peer sends a malformed frame and a camera
\* command in one segment, then a command for an output that is not
\* registered, while the front end reads the state, toggles the one channel
\* and resets the counters
ControlWorkloads ==
    {[Workload(1, [c \in Clients |-> <<BadCodeFrame \o CamOnFrame, DO03OnFrame>>]) EXCEPT
        !.channels = Channels(<<SteadyChannel>>),
        !.ui = MaxUi]}
    \cup CommonWorkloads

\* one more command than the log holds, the camera switched on and off by
\* turns, in one burst
Burst == Flatten([k \in 1..(LOG_CAP + 1) |-> IF k % 2 = 1 THEN CamOnFrame ELSE CamOffFrame])

\* the command log: one peer sends a frame that decodes to nothing and the
\* burst in one segment, then a command for an output that is not
\* registered; no telemetry
LogWorkloads ==
    {[Workload(1, [c \in Clients |-> <<BadCodeFrame \o Burst, DO03OnFrame>>])
        EXCEPT !.quota = 0]}
    \cup CommonWorkloads

\* the registry: one peer sends a frame that decodes to nothing and then
\* switches the camera on, on again and off, and DO01 off (as it is), in one
\* segment, then sends a command for an output that is not registered,
\* within a second of clock; no telemetry
RegistryWorkloads ==
    {[Workload(1, [c \in Clients |->
                     <<BadCodeFrame \o CamOnFrame \o CamOnFrame \o CamOffFrame \o DO01OffFrame,
                       DO03OnFrame>>])
        EXCEPT !.quota = 0, !.horizon = 1]}
    \cup CommonWorkloads

Workloads ==
    LifecycleWorkloads \cup DispatchWorkloads \cup ReassemblyWorkloads
        \cup MalformedWorkloads \cup CancellationWorkloads

(***************************************************************************)
(* The specification.                                                      *)
(***************************************************************************)
InitWith(W) ==
    /\ running = TRUE
    /\ client_connected = FALSE
    /\ clients_connected = 0
    /\ commands_received = 0
    /\ packets_sent = 0
    /\ equipment = InitEquipment
    /\ command_log = <<>>
    /\ lock = 0
    /\ data_lock = 0
    /\ mainPc = "start"
    /\ serverPc = "none"
    /\ recvPc = [c \in Clients |-> "none"]
    /\ sendPc = [c \in Clients |-> "none"]
    /\ buffer = [c \in Clients |-> <<>>]
    /\ cur = [c \in Clients |-> None]
    /\ tmp = [c \in Clients |-> 0]
    /\ pos = [c \in Clients |-> 0]
    /\ dispatched = [c \in Clients |-> <<>>]
    /\ lockOrder = <<>>
    /\ streamed = [c \in Clients |-> FALSE]
    /\ diagnostics = {}
    /\ anomalies_generated = 0
    /\ now = 0
    /\ index = 0
    /\ call = NoCall
    /\ gen_now = [c \in Clients |-> 0]
    /\ generated = [c \in Clients |-> <<>>]
    /\ written = [c \in Clients |-> <<>>]
    /\ skipped = [c \in Clients |-> 0]
    /\ \E wl \in W :
          /\ peer = wl.peer
          /\ wire = wl.wire
          /\ channels = wl.channels
          /\ fault_global_chance = wl.fault_global_chance
          /\ horizon = wl.horizon
          /\ quota = wl.quota
          /\ ui = wl.ui

Init == InitWith(Workloads)

Receiver(c) ==
    \/ HandleClientStart(c)
    \/ RecvLoop(c)
    \/ \E k \in 1..Len(wire[c]) : RecvData(c, k)
    \/ RecvTimeout(c)
    \/ RecvEnd(c)
    \/ ParseDone(c)
    \/ ParseIgnore(c)
    \/ ParseDispatch(c)
    \/ HandleLock(c)
    \/ HandleApply(c)
    \/ HandleKeyError(c)
    \/ CountRead(c)
    \/ CountWrite(c)
    \/ ClientClose(c)
    \/ ClientClearFlag(c)

Sender(c) ==
    \/ SendContinue(c)
    \/ SendExit(c)
    \/ GenFrameLock(c)
    \/ GenFrameUnlock(c)
    \/ SendOk(c)
    \/ SendOverrun(c)
    \/ SendFail(c)

Server ==
    \/ ServerBindOk
    \/ ServerBindFail
    \/ ServerLoop
    \/ \E c \in Clients : ServerAccept(c)
    \/ ServerAcceptTimeout
    \/ ServerAcceptError

Main ==
    \/ MainStart
    \/ MainQuit
    \/ MainNoKey
    \/ MainKeyReset
    \/ MainReset
    \/ MainKeyToggleAll
    \/ MainToggleAll
    \/ MainToggleAllDone
    \/ \E i \in 0..(Len(channels) + 1) : MainKeyToggleOne(i)
    \/ MainToggleOne
    \/ MainRenderStats
    \/ MainRenderEquipment
    \/ MainRecentLock
    \/ MainRecentUnlock
    \/ MainSnapLock
    \/ MainSnapUnlock

Next ==
    \/ Main
    \/ Server
    \/ \E c \in Clients : Receiver(c)
    \/ \E c \in Clients : Sender(c)
    \/ Tick

\* the union of the workloads
Spec == Init /\ [][Next]_vars

\* one peer whose stream arrives byte by byte
SpecReassembly == InitWith(ReassemblyWorkloads) /\ [][Next]_vars

\* one peer that sends malformed and well-formed frames
SpecMalformed == InitWith(MalformedWorkloads) /\ [][Next]_vars

\* two peers whose commands race for the dispatcher
SpecDispatch == InitWith(DispatchWorkloads) /\ [][Next]_vars

\* command frames of every form, one to a segment
SpecDecode == InitWith(DecodeWorkloads) /\ [][Next]_vars

\* the methods of ChannelConfig and generate_frame, called in any order
NextChannel ==
    \/ \E i \in 1..Len(channels) : \E b \in BOOLEAN : ChSetActive(i, b)
    \/ \E i \in 1..Len(channels) : ChTriggerFault(i)
    \/ \E i \in 1..Len(channels) : ChGenerateValue(i)
    \/ ChGenerateFrame
    \/ Tick

SpecChannel == InitWith(ChannelScenarios) /\ [][NextChannel]_vars

\* the front end at work beside a connection that sends commands
SpecControl == InitWith(ControlWorkloads) /\ [][Next]_vars

\* commands that repeat the state of an entry, with the clock running
SpecRegistry == InitWith(RegistryWorkloads) /\ [][Next]_vars

\* more commands than the command log holds
SpecLog == InitWith(LogWorkloads) /\ [][Next]_vars

\* telemetry frames under toggles, faults and a second sender
SpecFrames == InitWith(FrameWorkloads) /\ [][Next]_vars

(***************************************************************************)
(* Scheduling.  Every thread that can take a step eventually takes one.    *)
(* What the code itself guarantees about its blocking calls is that they   *)
(* return: accept after 1 s, recv and sendall after 5 s (settimeout).      *)
(* That data arrives or that a peer closes is up to the peer, so the       *)
(* receiver's fairness leaves RecvData and RecvEnd out.                    *)
(***************************************************************************)
ReceiverProgress(c) ==
    \/ HandleClientStart(c)
    \/ RecvLoop(c)
    \/ RecvTimeout(c)
    \/ ParseDone(c)
    \/ ParseIgnore(c)
    \/ ParseDispatch(c)
    \/ HandleLock(c)
    \/ HandleApply(c)
    \/ HandleKeyError(c)
    \/ CountRead(c)
    \/ CountWrite(c)
    \/ ClientClose(c)
    \/ ClientClearFlag(c)

Fairness ==
    /\ WF_vars(Server)
    /\ \A c \in Clients : WF_vars(ReceiverProgress(c))
    /\ \A c \in Clients : WF_vars(Sender(c))

\* the cancellation workloads under fair scheduling
FairSpec == InitWith(CancellationWorkloads) /\ [][Next]_vars /\ Fairness

(***************************************************************************)
(* Properties.                                                             *)
(***************************************************************************)
\* the connection has ended on the server side: its receiver left its loop
ConnectionEnded(c) == recvPc[c] \in {"close", "flag", "done"}

\* the receiver is inside its loop
ConnectionLive(c) == recvPc[c] \in {"loop", "recv", "parse", "handle", "apply", "count", "store"}

\* C1: client isolation.  While the server runs, a sender loop that has left
\* its while loop (not by a write error) belongs to a connection that has
\* itself ended: no other client's closure makes a sender loop exit.
C1_ClientIsolation ==
    \A c \in Clients : (sendPc[c] = "done" /\ running) => ConnectionEnded(c)

\* C2: ACCEPTED -> STREAMING.  While the server runs and the peer stays
\* connected, a sender loop does not end before it has written a frame.
C2_AcceptedClientStreams ==
    \A c \in Clients :
        (sendPc[c] = "done" /\ running /\ peer[c] = "connected" /\ ConnectionLive(c))
            => streamed[c]

\* C3: a failed write ends the client.  Once the sender loop of a connection
\* has exited on a write error, no further command of that connection is
\* dispatched.
C3_WriteFailureEndsClient ==
    [][\A c \in Clients : sendPc[c] = "failed" => dispatched'[c] = dispatched[c]]_vars

\* C4: the connected-client count.  Whenever no connection is in the middle
\* of being closed, clients_connected is the number of open connections.
C4_ClientCountTracksOpen ==
    (\A c \in Clients : recvPc[c] \notin {"close", "flag"})
        => clients_connected = Cardinality({c \in Clients : SocketOpen(c)})

\* every loop of the server has ended
AllLoopsEnded ==
    /\ serverPc \in {"none", "crashed", "closed"}
    /\ \A c \in Clients : recvPc[c] \in {"none", "done"}
    /\ \A c \in Clients : sendPc[c] \in {"none", "done", "failed"}

\* C5: cooperative cancellation.  Once running is false, the accept loop and
\* every sender and receiver loop eventually end.
C5_CooperativeCancellation == (~running) ~> AllLoopsEnded

\* C5 witness: the flag went down on a connection whose peer was still
\* connected and had more to send; the accept loop, the receiver (after a
\* dispatched command) and the sender have all ended
C5_Witness ==
    /\ ~running
    /\ AllLoopsEnded
    /\ serverPc = "closed"
    /\ recvPc[1] = "done"
    /\ sendPc[1] \in {"done", "failed"}
    /\ peer[1] = "connected"
    /\ pos[1] < Len(wire[1])
    /\ dispatched[1] # <<>>

\* C6: a listener fault aborts startup.  The front-end loop never runs with
\* running true while the accept thread has died of a bind or listen failure.
C6_ListenerFaultFatal == ~(running /\ mainPc = "loop" /\ serverPc = "crashed")

\* the receiver dispatched a command whose equipment name is not registered
DispatchedUnknown(c) ==
    /\ ConnectionEnded(c)
    /\ cur[c] # None
    /\ HandleRaises(equipment, cur[c][1])

\* C7: an unknown equipment name surfaces.  Once handle_command has failed on
\* a name that is not in the registry, the error output holds a record of it.
C7_UnknownEquipmentSurfaced ==
    \A c \in Clients :
        DispatchedUnknown(c) => \E d \in diagnostics : d[1] = "_handle_client"

\* a payload that the decoder is to ignore: neither 8 nor at least 20 bytes
\* long, 8 bytes with a code other than 0x11 / 0x15, or long with no "DO"
Malformed(payload) ==
    \/ Len(payload) # 8 /\ Len(payload) < 20
    \/ Len(payload) = 8 /\ U16(SubSeq(payload, 5, 6)) \notin {17, 21}
    \/ /\ Len(payload) >= 20
       /\ \A i \in 1..(Len(payload) - 1) : ~(payload[i] = 68 /\ payload[i + 1] = 79)

\* receiver c takes a step
ReceiverSteps(c) == recvPc'[c] # recvPc[c] \/ buffer'[c] # buffer[c]

\* C8: a malformed command is ignored.  When the receiver takes a complete
\* malformed command off its buffer, the log, the registry and the counters
\* stay as they were, nothing is dispatched, and the receiver goes on parsing
\* the rest of its buffer on the open connection.
C8_MalformedIgnored ==
    [][\A c \in Clients :
          (/\ recvPc[c] = "parse"
           /\ HasCommand(buffer[c])
           /\ Malformed(CommandData(buffer[c]))
           /\ ReceiverSteps(c))
          => /\ command_log' = command_log
             /\ equipment' = equipment
             /\ commands_received' = commands_received
             /\ dispatched'[c] = dispatched[c]
             /\ buffer'[c] = AfterCommand(buffer[c])
             /\ recvPc'[c] = "parse"]_vars

\* C8 witness: the stream began with a malformed command and a later command
\* of the same connection is being dispatched
C8_Witness ==
    \E c \in Clients :
        /\ HasCommand(Flatten(wire[c]))
        /\ Malformed(CommandData(Flatten(wire[c])))
        /\ recvPc[c] = "apply"
        /\ Len(dispatched[c]) = 1

\* what one read of the whole byte string b makes the receiver dispatch
RECURSIVE DispatchAll(_)
DispatchAll(b) ==
    IF ~HasCommand(b) THEN <<>>
    ELSE LET r == parse_command(CommandData(b))
         IN  IF r = None THEN DispatchAll(AfterCommand(b))
             ELSE IF HandleRaises(InitEquipment, r[1]) THEN <<r>>
             ELSE <<r>> \o DispatchAll(AfterCommand(b))

\* the bytes receiver c has read so far
Consumed(c) == Flatten(SubSeq(wire[c], 1, pos[c]))

\* the receiver is not in the middle of working off its buffer
Drained(c) == recvPc[c] \in {"loop", "recv", "close", "flag", "done"}

\* C9: reassembly is independent of chunking.  Whenever the receiver has
\* worked off its buffer, it has dispatched exactly what one read of all the
\* bytes received so far would have made it dispatch.
C9_ChunkingIndependent ==
    \A c \in Clients : Drained(c) => dispatched[c] = DispatchAll(Consumed(c))

\* C9 witness: two commands dispatched out of one-byte reads, the receiver
\* waiting with part of the next command in its buffer
C9_Witness ==
    \E c \in Clients :
        /\ recvPc[c] = "recv"
        /\ Len(dispatched[c]) = 2
        /\ buffer[c] # <<>>
        /\ \A i \in 1..Len(wire[c]) : Len(wire[c][i]) = 1

\* the state a command asks for
AsksOn(name, value_str) ==
    IF name \in {CAMERA, RECORDING} THEN value_str = ON ELSE value_str # ZERO

\* the entries of the lock order that have been applied to the registry
Applied ==
    IF lock \in Clients THEN SubSeq(lockOrder, 1, Len(lockOrder) - 1) ELSE lockOrder

\* the commands connection c got through the lock, in lock order
LockedBy(c) ==
    LET mine == SelectSeq(lockOrder, LAMBDA e : e[1] = c)
    IN  [i \in 1..Len(mine) |-> <<mine[i][2], mine[i][3]>>]

IsPrefix(s, t) == Len(s) <= Len(t) /\ s = SubSeq(t, 1, Len(s))

\* C10: command ordering.  The commands of one connection take the lock in
\* their arrival order, and each registry entry is in the state asked for by
\* the last applied command that names it (off if there is none).
C10_CommandOrdering ==
    /\ \A c \in Clients : IsPrefix(LockedBy(c), DispatchAll(Flatten(wire[c])))
    /\ \A n \in EquipmentNames :
          LET hits == {i \in 1..Len(Applied) : Applied[i][2] = n}
          IN  equipment[n].is_on =
                 IF hits = {} THEN FALSE
                 ELSE LET last == CHOOSE i \in hits : \A j \in hits : j <= i
                      IN  AsksOn(n, Applied[last][3])

\* C10 witness: the commands of two connections interleaved at the lock, two
\* of them for the same output, which ends in the state the later one asked
C10_Witness ==
    /\ lock = 0
    /\ Len(lockOrder) = 3
    /\ lockOrder[1][1] = 1
    /\ lockOrder[2][1] = 2
    /\ lockOrder[3][1] = 1
    /\ lockOrder[1][2] = DO01
    /\ lockOrder[2][2] = DO01
    /\ equipment[DO01].change_count = 2
    /\ ~equipment[DO01].is_on


(***************************************************************************)
(* Telemetry frames.                                                       *)
(***************************************************************************)
\* the frame a step hands to the sender of connection c
NewFrame(c) == generated'[c][Len(generated'[c])]

\* the frame is well formed for the N channels of the configuration
WellFormed(p, chs) ==
    LET N == Len(chs)
        total_length == 20 + 4 + 8 * N + 4
    IN  /\ Len(p) = 4 + total_length
        /\ U32(SubSeq(p, 1, 4)) = total_length
        /\ SubSeq(p, 5, 24) = Zeros(20)
        /\ U32(SubSeq(p, 25, 28)) = N
        /\ \A i \in 1..N : SubSeq(p, 21 + 8 * i, 28 + 8 * i) = PackDouble(chs[i].last_value)
        /\ U32(SubSeq(p, Len(p) - 3, Len(p))) = total_length

\* C11: frame well-formedness.  Every frame generate_frame returns, whatever
\* toggles, faults and frames of other connections came before it, has the
\* count field N = the number of configured channels, one slot per channel
\* in configuration order holding the value that channel has just generated,
\* the length field 20 + 4 + 8*N + 4 and a trailer equal to the length field;
\* and N never changes.
C11_FrameWellFormed ==
    [][/\ Len(channels') = Len(channels)
       /\ \A c \in Clients :
             Len(generated'[c]) > Len(generated[c]) => WellFormed(NewFrame(c), channels')]_vars

\* a connection has been handed two different frames of two channels, one
\* of them switched off or disconnected
C11_Witness ==
    \E c \in Clients :
        /\ Len(channels) = 2
        /\ Len(generated[c]) = 2
        /\ generated[c][1] # generated[c][2]
        /\ \E i \in 1..2 : channels[i].last_value = NO_SENSOR
        /\ \E i \in 1..2 : channels[i].last_value # NO_SENSOR



\* C15: pacing never drops or duplicates frames.  What a sender has written
\* to its socket is, frame for frame, what generate_frame returned to it:
\* between iterations every frame generated has been written once, inside
\* an iteration the frame just generated is the only one not yet written,
\* every write writes that frame and nothing else, and an iteration that
\* overran its interval skips the sleep and goes round to generate the next
\* frame.
C15_PacingNoDropNoDup ==
    /\ [](\A c \in Clients :
            /\ IsPrefix(written[c], generated[c])
            /\ sendPc[c] \in {"check", "wait", "gen"} => written[c] = generated[c]
            /\ sendPc[c] = "send" => Len(generated[c]) = Len(written[c]) + 1)
    /\ [][\A c \in Clients :
            /\ written'[c] # written[c]
                => /\ written'[c] = Append(written[c], generated[c][Len(generated[c])])
                   /\ generated'[c] = generated[c]
            /\ skipped'[c] # skipped[c]
                => /\ written'[c] = generated[c]
                   /\ sendPc'[c] = "check"]_vars

\* a sender overran its interval, skipped the sleep and has generated and
\* written a second frame
C15_Witness ==
    \E c \in Clients :
        /\ skipped[c] >= 1
        /\ Len(generated[c]) = 2
        /\ written[c] = generated[c]
        /\ gen_now[c] = 1

(***************************************************************************)
(* Command decoding.                                                       *)
(***************************************************************************)
\* receiver c takes the complete command at the head of its buffer
TakesCommand(c) ==
    /\ recvPc[c] = "parse"
    /\ HasCommand(buffer[c])
    /\ ReceiverSteps(c)

\* the offsets (from 1) of the marker "DO" in a payload
MarkerOffsets(payload) ==
    {i \in 1..(Len(payload) - 1) : payload[i] = 68 /\ payload[i + 1] = 79}

\* the identifier at offset i: up to four bytes
Identifier(payload, i) == SubSeq(payload, i, Min({i + 3, Len(payload)}))

\* C12: DO command decode.  When the receiver takes a command of at least 20
\* bytes whose first "DO" marker, at whatever offset of the payload, has its
\* four identifier bytes and two value bytes inside the payload, it
\* dispatches (identifier, decimal string of the value).
C12_DODecodeAnywhere ==
    [][\A c \in Clients :
          LET payload == CommandData(buffer[c])
              i == Min(MarkerOffsets(payload))
          IN  (/\ TakesCommand(c)
               /\ Len(payload) >= 20
               /\ MarkerOffsets(payload) # {}
               /\ i + 5 <= Len(payload))
              => dispatched'[c] =
                    Append(dispatched[c],
                           <<Identifier(payload, i), IntToStr(U16(SubSeq(payload, i + 4, i + 5)))>>)]_vars

\* C13: DO command decode with a short remainder.  When the first "DO"
\* marker of a command of at least 20 bytes is followed by less than the
\* identifier and two value bytes, the receiver dispatches (identifier, "0").
C13_DOShortRemainder ==
    [][\A c \in Clients :
          LET payload == CommandData(buffer[c])
              i == Min(MarkerOffsets(payload))
          IN  (/\ TakesCommand(c)
               /\ Len(payload) >= 20
               /\ MarkerOffsets(payload) # {}
               /\ i + 5 > Len(payload))
              => dispatched'[c] = Append(dispatched[c], <<Identifier(payload, i), ZERO>>)]_vars

\* what an 8-byte buffer decodes to: code 0x11 is the camera, 0x15 the
\* recorder, the value 0x0101 is "ON" and every other value "OFF"
ShortDecoded(payload) ==
    LET code == U16(SubSeq(payload, 5, 6))
        value == U16(SubSeq(payload, 7, 8))
        value_str == IF value = 257 THEN ON ELSE OFF
    IN  IF code = 17 THEN <<CAMERA, value_str>>
        ELSE IF code = 21 THEN <<RECORDING, value_str>>
        ELSE None

\* receiver c leaves handle_command having updated the registry
Applies(c) == recvPc[c] = "apply" /\ recvPc'[c] = "count"

\* C14: short command decode.  An 8-byte command with code 0x11 is
\* dispatched as ("CAMERA", "ON") when its value is 0x0101 and as
\* ("CAMERA", "OFF") for every other value, code 0x15 likewise as
\* "RECORDING", and with any other code nothing is dispatched; and
\* dispatching a CAMERA or RECORDING command leaves that entry on exactly
\* when the value string is "ON", and the other entries as they were.
C14_ShortDecode ==
    [][\A c \in Clients :
          /\ (TakesCommand(c) /\ Len(CommandData(buffer[c])) = 8)
              => dispatched'[c] =
                    IF ShortDecoded(CommandData(buffer[c])) = None THEN dispatched[c]
                    ELSE Append(dispatched[c], ShortDecoded(CommandData(buffer[c])))
          /\ (Applies(c) /\ cur[c][1] \in {CAMERA, RECORDING})
              => /\ equipment'[cur[c][1]].is_on = (cur[c][2] = ON)
                 /\ \A n \in EquipmentNames \ {cur[c][1]} : equipment'[n] = equipment[n]]_vars

\* the camera and the recorder were switched on, and a camera command whose
\* value is 0x0001 has switched the camera off again
C14_Witness ==
    \E c \in Clients :
        /\ Len(wire[c]) = 2
        /\ SubSeq(wire[c][2], 9, 12) = <<0, CMD_CAMERA_POWER, 0, 1>>
        /\ dispatched[c] = <<<<CAMERA, ON>>, <<RECORDING, ON>>, <<CAMERA, OFF>>>>
        /\ recvPc[c] = "count"
        /\ ~equipment[CAMERA].is_on
        /\ equipment[CAMERA].change_count = 2
        /\ equipment[RECORDING].is_on




(***************************************************************************)
(* ChannelConfig.                                                          *)
(***************************************************************************)
\* the step is a call of method op on a channel
Calls(op) == call'.n = call.n + 1 /\ call'.op = op

\* the channel a call is made on, before and after it
Before == channels[call'.i]
After == channels'[call'.i]

\* C16: inactive-channel invariant.  From construction on, through every
\* set_active, trigger_fault, generate_value and frame generation, a channel
\* whose is_active is false has last_value -99.0 and fault_mode NORMAL, and
\* generate_value on it returns exactly -99.0.
C16_InactiveChannel ==
    /\ [](\A i \in 1..Len(channels) :
            ~channels[i].is_active
                => /\ channels[i].last_value = NO_SENSOR
                   /\ channels[i].fault_mode = FAULT_NORMAL)
    /\ [][(Calls("generate_value") /\ ~Before.is_active) => call'.ret = NO_SENSOR]_vars

\* a channel configured active was switched off and generate_value has been
\* called on it
C16_Witness ==
    /\ call.op = "generate_value"
    /\ call.n >= 3
    /\ call.ret = NO_SENSOR
    /\ ~channels[call.i].is_active
    /\ channels[call.i].drift_factor > 0

\* sigma * (1.0 - alpha): the spread of one draw of noise
NoiseSpread(ch) == Scale(range(ch) * ch.noise_factor * (100 - ALPHA), 1, 100000)

\* C17: fault duration.  A fault keeps its mode and its deadline until it
\* ends or set_active is called; generate_value before the deadline leaves
\* the channel faulted; the first generate_value at or after the deadline
\* resets the channel to NORMAL, clears failure_kind, failure_value and
\* fault_until, restarts the noise accumulator from zero and returns a
\* NORMAL-mode value.
C17_FaultDuration ==
    [][/\ \A i \in 1..Len(channels) :
             (/\ channels[i].fault_mode # FAULT_NORMAL
              /\ channels'[i].fault_mode # FAULT_NORMAL)
             => /\ channels'[i].fault_mode = channels[i].fault_mode
                /\ channels'[i].fault_until = channels[i].fault_until
       /\ (Calls("generate_value") /\ Before.fault_mode # FAULT_NORMAL /\ now < Before.fault_until)
             => After.fault_mode # FAULT_NORMAL
       /\ (Calls("generate_value") /\ Before.fault_mode # FAULT_NORMAL /\ now >= Before.fault_until)
             => /\ After.fault_mode = FAULT_NORMAL
                /\ After.failure_kind = ""
                /\ After.failure_value = 0
                /\ After.fault_until = 0
                /\ After.noise_state \in (0 - NoiseSpread(After))..NoiseSpread(After)
                /\ call'.ret = quantize(Clamp(After.current_value + After.noise_state,
                                              After.min_val, After.max_val))]_vars

\* a fault has just been ended, at its deadline, by the third call made on
\* the channel, a generate_value
C17_Witness ==
    /\ call.op = "generate_value"
    /\ call.n >= 3
    /\ now = DUR_MIN
    /\ channels[call.i].is_active
    /\ channels[call.i].fault_mode = FAULT_NORMAL
    /\ channels[call.i].noise_factor > 0
    /\ call.ret # quantize(Midpoint(channels[call.i]))

\* C18: trigger_fault.  On a channel that is inactive or already faulted it
\* returns false and leaves every field of the channel as it was; on an
\* active NORMAL channel it returns true and leaves the channel DISCONNECTED
\* or FAILED with fault_until between now + 3 and now + 25.
C18_TriggerFault ==
    [][Calls("trigger_fault")
          => IF (~Before.is_active) \/ Before.fault_mode # FAULT_NORMAL
             THEN call'.ret = FALSE /\ After = Before
             ELSE /\ call'.ret = TRUE
                  /\ After.fault_mode \in {FAULT_DISCONNECTED, FAULT_FAILED}
                  /\ After.fault_until >= now + 3
                  /\ After.fault_until <= now + 25]_vars

\* trigger_fault has just been refused on a channel that is in a fault
C18_Witness ==
    /\ call.op = "trigger_fault"
    /\ call.ret = FALSE
    /\ channels[call.i].is_active
    /\ channels[call.i].fault_mode = FAULT_FAILED
    /\ channels[call.i].fault_until > now

\* C19: clamping invariant.  The value generate_value returns for an active
\* channel in NORMAL mode lies in [min, max], whether or not the bounds are
\* multiples of 0.001.
C19_Clamping ==
    [][(Calls("generate_value") /\ After.is_active /\ After.fault_mode = FAULT_NORMAL)
          => (After.min_val <= call'.ret /\ call'.ret <= After.max_val)]_vars



(***************************************************************************)
(* The control surface of the front end.                                   *)
(***************************************************************************)
\* the front end goes from one place of its loop to another
MainGoes(from, to) == mainPc = from /\ mainPc' = to

\* C20: the control surface is lock-protected.  Every step of the front end
\* that touches shared state is taken holding the lock the server threads
\* take for that state: data_lock for the packet and anomaly counters and
\* the channels (read for the screen, reset, toggled), the command
\* handler's lock for the equipment registry and the command log.
C20_ControlSurfaceLocked ==
    [][/\ MainGoes("render", "equip") => data_lock = MainHolder
       /\ MainGoes("snapHeld", "loop") => data_lock = MainHolder
       /\ MainGoes("reset", "render") => data_lock = MainHolder
       /\ MainGoes("toggleAll", "render") => data_lock = MainHolder
       /\ MainGoes("toggleOne", "render") => data_lock = MainHolder
       /\ MainGoes("equip", "recent") => lock = MainHolder
       /\ MainGoes("recentHeld", "snap") => lock = MainHolder]_vars



(***************************************************************************)
(* Mutual exclusion.                                                       *)
(***************************************************************************)
\* sender c is inside generate_frame's "with self.data_lock:" block
Generating(c) == sendPc[c] = "gen"

\* receiver c is inside handle_command's "with self.lock:" block
Applying(c) == recvPc[c] = "apply"

\* C21: single mutual-exclusion discipline.  A sender generating a frame and
\* a receiver applying a command are never inside their critical sections at
\* the same time.
C21_SingleMutex == \A c, d \in Clients : ~(Generating(c) /\ Applying(d))


\* the front end is inside one of its "with self.data_lock:" blocks
MainInside == mainPc \in {"reset", "toggleAll", "toggleOne", "snapHeld"}

\* the threads inside a block guarded by data_lock
DataHolders ==
    {c \in Clients : Generating(c)} \cup (IF MainInside THEN {MainHolder} ELSE {})

\* a toggle-all has been applied to some of the channels and not yet to all
HalfToggled == mainPc = "toggleAll" /\ 0 < index /\ index < Len(channels)

\* C22: per-channel state is never mutated by two threads at once.  Frame
\* generations of different connections, toggle-one, toggle-all and the
\* other sections of the front end exclude each other, and no frame is
\* computed while a toggle is in progress: a frame never sees a toggle-all
\* applied to some channels and not to the others.
C22_ChannelsExclusive ==
    /\ [](/\ Cardinality(DataHolders) <= 1
          /\ DataHolders # {} => data_lock \in DataHolders)
    /\ [][\A c \in Clients :
            Len(generated'[c]) > Len(generated[c])
                => ~HalfToggled /\ mainPc \notin {"toggleAll", "toggleOne"}]_vars

\* the first channel has been switched off and the second on, and the last
\* frame of a connection was computed from the channels as they are now
C22_Witness ==
    \E c \in Clients :
        /\ Len(channels) = 2
        /\ ~channels[1].is_active
        /\ channels[2].is_active
        /\ generated[c] # <<>>
        /\ generated[c][Len(generated[c])] = build_packet(FrameValues(channels))
        /\ channels[2].last_value # NO_SENSOR

(***************************************************************************)
(* Blocking operations and the locks.                                      *)
(***************************************************************************)
\* receiver c is inside client_socket.recv (line 831)
InRecv(c) == recvPc[c] = "recv"

\* sender c is inside client_socket.sendall or the pacing sleep that follows
\* it (lines 878-884)
InSendOrSleep(c) == sendPc[c] = "send"

\* the accept thread is inside server_socket.accept (line 792)
InAccept == serverPc = "accept"

\* C23: no thread performs a blocking operation while it holds a lock. The
\* handle_command lock is only ever held by a receiver and data_lock by a
\* sender or the front end; a receiver inside recv holds neither, a sender
\* inside sendall or the pacing sleep holds neither, and the accept thread,
\* which takes no lock at all, is the only one inside accept.
C23_NoBlockingUnderLock ==
    \A c \in Clients :
        /\ InRecv(c) => lock # c
        /\ InSendOrSleep(c) => data_lock # c
        /\ lock \in Clients \cup {0, MainHolder}
        /\ lock = c => recvPc[c] = "apply"
        /\ data_lock = c => sendPc[c] = "gen"

\* a sender is inside sendall while another thread holds data_lock, and a
\* receiver is inside recv while another receiver holds the dispatcher lock
C23_Witness ==
    /\ \E c \in Clients : InSendOrSleep(c) /\ data_lock \notin {0, c}
    /\ \E c \in Clients : InRecv(c) /\ lock \notin {0, c}

(***************************************************************************)
(* Faults and their deadlines.                                             *)
(***************************************************************************)
\* channel i is shown as faulted: fault_mode is not NORMAL
Faulted(i) == channels[i].fault_mode # FAULT_NORMAL

\* C24: fault deadline invariant.  In every reachable state a channel whose
\* fault_mode is not NORMAL has fault_until greater than the current time,
\* also while no frame is being generated.
C24_FaultDeadlineAhead ==
    \A i \in 1..Len(channels) : Faulted(i) => channels[i].fault_until > now

(***************************************************************************)
(* The fault injector of generate_frame.                                   *)
(***************************************************************************)
\* channel i is active and in NORMAL mode
ActiveNormal(i) == channels[i].is_active /\ channels[i].fault_mode = FAULT_NORMAL

\* sender c leaves generate_frame in this step
FrameBy(c) == sendPc[c] = "gen" /\ sendPc'[c] = "send"

\* channel i goes from NORMAL to a fault in this step
FaultStarts(i) == channels[i].fault_mode = FAULT_NORMAL /\ channels'[i].fault_mode # FAULT_NORMAL

\* C25: the injector never selects outside the candidate set.  Whenever a
\* sender is inside generate_frame with the injector on, every channel the
\* injector can pick is active and in NORMAL mode and trigger_fault returns
\* True on it; with no such channel the injector leaves the channels as they
\* are.  A frame starts a fault on at most one channel, one that was active
\* and in NORMAL mode, and on none when there was no candidate.
C25_InjectorPicksCandidate ==
    /\ [](\A c \in Clients :
            (Generating(c) /\ fault_global_chance > 0) =>
                /\ \A i \in Picks(channels) :
                      /\ ActiveNormal(i)
                      /\ \A o \in trigger_fault(channels[i], gen_now[c]) : o[1]
                /\ (\A i \in 1..Len(channels) : ~ActiveNormal(i))
                      => InjectFault(channels, fault_global_chance, gen_now[c]) = {channels})
    /\ [][\A c \in Clients :
            FrameBy(c) =>
                /\ Cardinality({i \in 1..Len(channels) : FaultStarts(i)}) <= 1
                /\ \A i \in 1..Len(channels) : FaultStarts(i) => ActiveNormal(i)]_vars

\* the injector is on, the first frame of a connection put channel 1 into
\* the DISCONNECTED fault, and the second frame was generated with no
\* candidate left: channel 1 faulted, channel 2 inactive
C25_Witness ==
    \E c \in Clients :
        /\ fault_global_chance > 0
        /\ Len(channels) = 2
        /\ Len(generated[c]) = 2
        /\ generated[c][1] = build_packet(<<NO_SENSOR, NO_SENSOR>>)
        /\ channels[1].fault_mode = FAULT_DISCONNECTED
        /\ ~channels[2].is_active
        /\ sendPc[c] = "send"

\* C26: channels never self-trigger.  A channel leaves NORMAL for
\* DISCONNECTED or FAILED only in a step in which a sender generates a frame
\* with the fault injector on; a frame generated with the injector off (its
\* generate_value calls) and the toggles of the front end (their set_active
\* calls) never move a channel out of NORMAL.
C26_NoSelfTrigger ==
    [][\A i \in 1..Len(channels) :
         FaultStarts(i) => /\ \E c \in Clients : FrameBy(c)
                           /\ fault_global_chance > 0]_vars

\* the injector has put channel 1 into the FAILED fault in the only frame
\* generated so far
C26_Witness ==
    \E c \in Clients :
        /\ fault_global_chance > 0
        /\ FramesGenerated = 1
        /\ Len(generated[c]) = 1
        /\ Len(channels) = 2
        /\ channels[1].fault_mode = FAULT_FAILED
        /\ channels[1].failure_kind = "STUCK_HIGH"

(***************************************************************************)
(* set_active.                                                             *)
(***************************************************************************)
\* the fault fields and the noise of a channel are those of a new channel
FaultCleared(ch) ==
    /\ ch.fault_mode = FAULT_NORMAL
    /\ ch.fault_until = 0
    /\ ch.failure_kind = ""
    /\ ch.failure_value = 0
    /\ ch.noise_state = 0

\* C27: reset semantics of set_active.  set_active(False) leaves the channel
\* inactive with its fault state and noise cleared and last_value -99.0;
\* set_active(True) leaves it active with the baseline at the midpoint of
\* the range, fault state and noise cleared and last_value the quantized
\* midpoint, whatever fault or baseline the channel had before.
C27_SetActiveResets ==
    [][Calls("set_active") =>
         /\ After.is_active = call'.ret
         /\ FaultCleared(After)
         /\ ~call'.ret => After.last_value = NO_SENSOR
         /\ call'.ret => /\ After.current_value = Midpoint(Before)
                         /\ After.last_value = quantize(Midpoint(Before))]_vars

\* set_active(True) has just been called, as the third call, on a channel
\* whose midpoint 0.0014 quantizes to 0.001: the baseline is the midpoint
\* and last_value its quantized value
C27_Witness ==
    /\ call.op = "set_active"
    /\ call.ret
    /\ call.n = 3
    /\ channels[call.i].drift_factor > 0
    /\ channels[call.i].current_value = Midpoint(channels[call.i])
    /\ channels[call.i].last_value # channels[call.i].current_value
    /\ FaultCleared(channels[call.i])

(***************************************************************************)
(* The equipment registry.                                                 *)
(***************************************************************************)
\* receiver c is at the if / elif chain of handle_command, holding the lock
Dispatching(c) == recvPc[c] = "apply" /\ lock = c

\* C28: the key set of the registry is fixed.  The registry always holds
\* exactly the four entries of construction: no command, known or not, adds
\* or removes one, and a name that is no key is a lookup failure.  The
\* state of an entry changes only in a step of handle_command.
C28_RegistryKeysFixed ==
    /\ [](DOMAIN equipment = {CAMERA, RECORDING, DO01, DO02})
    /\ [][\A c \in Clients :
            (Dispatching(c) /\ cur[c][1] \notin DOMAIN equipment)
                => (equipment' = equipment /\ recvPc'[c] \in {"apply", "close"})]_vars
    /\ [][equipment' # equipment => \E c \in Clients : Dispatching(c) /\ recvPc'[c] = "count"]_vars

\* a command for DO03, which is no key, has been through handle_command
\* after a command that switched DO01 on
C28_Witness ==
    \E c \in Clients :
        /\ recvPc[c] = "close"
        /\ Len(cur[c]) = 2
        /\ cur[c][1] \notin DOMAIN equipment
        /\ Len(dispatched[c]) >= 1
        /\ \E n \in DOMAIN equipment : equipment[n].is_on

(***************************************************************************)
(* The command log.                                                        *)
(***************************************************************************)
\* the last n elements of a sequence, all of them if there are no more
LastN(seq, n) == IF Len(seq) <= n THEN seq ELSE SubSeq(seq, Len(seq) - n + 1, Len(seq))

\* the commands handled so far, in the order they took the dispatcher lock
Handled == [k \in 1..Len(lockOrder) |-> <<lockOrder[k][2], lockOrder[k][3]>>]

\* C29: the command log is capped.  The log never holds more than 50
\* entries, and it is always the most recent 50 (or fewer) commands handled,
\* in the order in which they took the dispatcher lock: the oldest entry is
\* the one evicted.
C29_LogCapped ==
    /\ Len(command_log) <= 50
    /\ command_log = LastN(Handled, 50)

\* 52 commands have been handled: the log holds 50, the two handled first
\* are gone from it and the last one, for DO03, is its newest entry
C29_Witness ==
    /\ Len(lockOrder) = 52
    /\ Len(command_log) = 50
    /\ command_log[1] = Handled[3]
    /\ command_log[1] # Handled[2]
    /\ command_log[50] = Handled[52]
    /\ lock = 0

(***************************************************************************)
(* A command for an output that is not registered.                         *)
(***************************************************************************)
\* receiver c is inside handle_command, past the log, with a command whose
\* name starts with "DO" and is neither DO01 nor DO02
Unregistered(c) ==
    /\ recvPc[c] = "apply"
    /\ StartsWithDO(cur[c][1])
    /\ cur[c][1] \notin {DO01, DO02}

\* receiver c has left its loop: it is at client_socket.close() or past it
LoopEnded(c) == recvPc[c] \in {"close", "flag", "done"}

\* C30: a DO command for an output that is not registered.  The command is
\* in the command log; the step that ends handle_command changes no
\* equipment entry, does not count the command in commands_received,
\* releases the dispatcher lock and takes the receiver out of its loop to the
\* closing of the socket; a receiver that has left its loop dispatches
\* nothing more, whatever is left in its buffer.
C30_UnregisteredOutput ==
    /\ [](\A c \in Clients :
            Unregistered(c) => /\ lock = c
                               /\ command_log # <<>>
                               /\ command_log[Len(command_log)] = cur[c])
    /\ [][\A c \in Clients :
            (Unregistered(c) /\ recvPc'[c] # "apply") =>
                /\ equipment' = equipment
                /\ commands_received' = commands_received
                /\ command_log' = command_log
                /\ lock' = 0
                /\ recvPc'[c] = "close"]_vars
    /\ [][\A c \in Clients :
            LoopEnded(c) => /\ LoopEnded(c)'
                            /\ dispatched'[c] = dispatched[c]
                            /\ buffer'[c] = buffer[c]]_vars

\* the connection has ended on a DO03 command, the only one dispatched and
\* logged: no equipment entry has changed, commands_received is 0, the lock
\* is free, and the camera command that came in the same segment is still
\* in the buffer
C30_Witness ==
    \E c \in Clients :
        /\ recvPc[c] = "done"
        /\ dispatched[c] = <<cur[c]>>
        /\ cur[c][1] \notin DOMAIN equipment
        /\ command_log = <<cur[c]>>
        /\ equipment = InitEquipment
        /\ commands_received = 0
        /\ lock = 0
        /\ HasCommand(buffer[c])
        /\ parse_command(CommandData(buffer[c])) = <<CAMERA, ON>>

(***************************************************************************)
(* The command counter.                                                    *)
(***************************************************************************)
\* the commands that have left handle_command without an exception
Succeeded ==
    {k \in 1..Len(lockOrder) :
        /\ ~HandleRaises(InitEquipment, lockOrder[k][2])
        /\ ~(k = Len(lockOrder) /\ lock \in Clients)}

\* the receivers between the return of handle_command and the end of
\* self.commands_received += 1
Counting == {c \in Clients : recvPc[c] \in {"count", "store"}}

\* C31: no increment of commands_received is lost.  With the increments
\* still under way added, commands_received is the number of commands that
\* were decoded and went through handle_command, over all connections.
C31_NoLostIncrement ==
    commands_received + Cardinality(Counting) = Cardinality(Succeeded)

(***************************************************************************)
(* set_state and the change counters.                                      *)
(***************************************************************************)
\* the applied commands that name entry n, in lock order
CommandsFor(n) == SelectSeq(Applied, LAMBDA e : e[2] = n)

\* the on/off flips of entry n: the commands for it that asked for the
\* state it was not in (off at construction, then what the command before
\* asked for)
Flips(n) ==
    LET cmds == CommandsFor(n)
        asks(i) == AsksOn(n, cmds[i][3])
        was(i) == IF i = 1 THEN FALSE ELSE asks(i - 1)
    IN  {i \in 1..Len(cmds) : asks(i) # was(i)}

\* receiver c is about to apply a command that asks an entry for the state
\* it is in
Repeats(c) ==
    /\ Dispatching(c)
    /\ cur[c][1] \in DOMAIN equipment
    /\ equipment[cur[c][1]].is_on = AsksOn(cur[c][1], cur[c][2])

\* C32: set_state is idempotent.  A command that asks an entry for the state
\* it is in is in the command log and leaves the whole registry as it is:
\* is_on, last_change and change_count of every entry.  The change_count of
\* an entry is the number of its on/off flips, not of the commands for it,
\* and an entry that never flipped has the last_change of construction.
C32_SetStateIdempotent ==
    /\ [](\A n \in DOMAIN equipment :
            /\ equipment[n].change_count = Cardinality(Flips(n))
            /\ Flips(n) = {} => equipment[n].last_change = 0)
    /\ [](\A c \in Clients : Repeats(c) => command_log[Len(command_log)] = cur[c])
    /\ [][\A c \in Clients :
            (Repeats(c) /\ recvPc'[c] # "apply") =>
                /\ equipment' = equipment
                /\ command_log' = command_log
                /\ recvPc'[c] = "count"]_vars

\* four commands have been applied, three of them for the camera, after the
\* clock had moved: the camera flipped twice, the second time at time 1,
\* and DO01, told to be off as it was, is as it was constructed
C32_Witness ==
    /\ lock = 0
    /\ Len(Applied) = 4
    /\ Len(CommandsFor(CAMERA)) = 3
    /\ equipment[CAMERA].change_count = 2
    /\ equipment[CAMERA].last_change = 1
    /\ Len(CommandsFor(DO01)) = 1
    /\ equipment[DO01] = InitEquipment[DO01]
    /\ now = 1
====
